---- MODULE Spec2Model ----
(***************************************************************************)
(* Offline sync queue of Capsera (src/utils/syncQueue.js over               *)
(* src/utils/idb.js).  One browser page: a single JavaScript event loop,    *)
(* so every action below is one run-to-completion segment of the code       *)
(* between two awaits.  The queue lives either in the IndexedDB store       *)
(* "syncQueue" or, when IndexedDB is unavailable, in the module array       *)
(* syncQueueFallback.                                                       *)
(*                                                                         *)
(* A nextAttemptAt stamp is kept as its offset, in ms, from the instant it   *)
(* was computed at (the Date.now() of the failure), and as 0 once the clock *)
(* has reached it, so that `new Date() < new Date(item.nextAttemptAt)` is   *)
(* 0 < g.  Tick lets the clock reach the stamp of one item; which item's    *)
(* stamp is reached first is left open.                                     *)
(***************************************************************************)
EXTENDS Integers, Sequences, FiniteSets, TLC

\* ---------------------------------------------------------------- bounds
MaxItems == 2          \* ids that crypto.randomUUID() can hand out
MaxPasses == 2         \* processSyncQueue invocations that can be suspended at once
RandRes == 10          \* Math.random() is drawn from {0/RandRes .. (RandRes-1)/RandRes}
MaxRetryCount == 9     \* largest argument tried on getRetryDelay as a pure function
MaxPayload == 1        \* distinct payloads handed to enqueue
MaxTimers == 1         \* pending setTimeout callbacks of setupAutoSync
MaxUpsets == 1         \* failing storage requests plus retryQueueItem calls in one behaviour
MaxData == 2           \* distinct results handed to setCacheItem
MaxSweepDays == 2      \* days the clock runs over a cache that is swept
MaxCalls == 2          \* calls of postOpenAI and postTranslate that miss the cache
MaxDays == 7           \* days the clock runs over the cached proxy
MaxBatch == 2          \* longest textArray handed to batchTranslate

\* ------------------------------------------------------ program constants
MAX_RETRIES == 5
BASE_DELAY == 1000
MAX_DELAY == 30000

Ids == 1..MaxItems
Passes == 1..MaxPasses
Payloads == 1..MaxPayload
KnownTypes == {"finalSubmit", "feedback"}
\* The engine treats the two known types alike (they differ in the adapter called,
\* whose outcome is drawn freely), so enqueue draws one of them and an unknown type.
Types == {"feedback", "other"}
NoGate == 0 - 1        \* nextAttemptAt null or absent
NoId == 0
Untracked == 0 - 1

VARIABLES
  idb,            \* isIndexedDBAvailable()
  online,         \* navigator.onLine
  isProcessing,   \* the single-flight guard
  items,          \* id -> record: the object store (idb) or the item objects (fallback)
  queue,          \* ids in scan order: key order (idb), array order (fallback)
  usedIds,        \* ids handed out so far
  pc,             \* per invocation: where the pass is suspended
  queueItems,     \* per invocation: the snapshot read by getQueueItems
  idx,            \* per invocation: position of the for loop in the snapshot
  successCount,
  failCount,
  pend,           \* per invocation: the storage call the pass is waiting for
  log,            \* per invocation: outcome per snapshot position, in order
  emitted,        \* per invocation: syncQueueProcessed was dispatched
  rq,             \* the retryQueueItem call in flight
  timers,         \* number of pending setTimeout callbacks of setupAutoSync
  fails,          \* history: id -> failed adapter calls, while every adapter call on it failed
  faults,         \* storage requests that failed so far
  retryCalls,     \* calls of retryQueueItem so far
  rqFirst,        \* the request of retryQueueItem was issued before the pending one of the pass
  dn, drnd,       \* inputs of getRetryDelay as a pure function
  dout,           \* its result, in 1/Scale ms
  cache,          \* the object store "cache": key -> entry
  now,            \* Date.now(), in ms since the page was loaded
  debounceMap,    \* netlifyProxy.js: cache key of the debounce key -> armed timer
  calls,          \* the promises handed out by debounce and their timers
  requestHistory, \* netlifyProxy.js: endpoint -> times of the recent requests
  batch           \* the batchTranslate call in progress

cacheVars == <<cache, now>>
proxyVars == <<debounceMap, calls, requestHistory, batch>>
sideVars == <<cacheVars, proxyVars>>

vars == <<idb, online, isProcessing, items, queue, usedIds, pc, queueItems,
          idx, successCount, failCount, pend, log, emitted, rq,
          timers, fails, faults, retryCalls, rqFirst, dn, drnd, dout, sideVars>>

\* ------------------------------------------------------------ pure helpers
Min(a, b) == IF a < b THEN a ELSE b

RECURSIVE Pow2(_)
Pow2(n) == IF n = 0 THEN 1 ELSE 2 * Pow2(n - 1)

\* Delays are kept exact as integers in 1/Scale ms.
Scale == 10 * RandRes

getRetryDelay_noCap(retryCount, rnd) ==
  LET delay == BASE_DELAY * Pow2(retryCount)
      jitter == rnd * 3 * delay
  IN  delay * Scale + jitter

\* getRetryDelay(retryCount) with Math.random() = rnd / RandRes; result in 1/Scale ms
getRetryDelay(retryCount, rnd) ==
  LET delay == Min(BASE_DELAY * Pow2(retryCount), MAX_DELAY)
      jitter == rnd * 3 * delay          \* (rnd / RandRes) * 0.3 * delay, times Scale
  IN  delay * Scale + jitter

\* new Date(Date.now() + nextAttemptDelay).toISOString(): the time value is
\* truncated to whole ms; the result is the offset from Date.now()
nextAttemptTime(scaledDelay) == scaledDelay \div Scale

NoItem == [id |-> NoId, type |-> "none", payload |-> 0, createdAt |-> 0,
           retries |-> 0, nextAttemptAt |-> NoGate, lastError |-> "none"]

\* kind: the call awaited; retries, nextAttemptAt: the updates; item: the record
\* read by getRecord
NoPend == [kind |-> "none", id |-> NoId, retries |-> 0, nextAttemptAt |-> NoGate,
           item |-> NoItem]

NoRq == [pc |-> "idle", id |-> NoId, item |-> NoItem]

InQueue(q, id) == \E k \in 1..Len(q) : q[k] = id

RemoveId(q, id) == SelectSeq(q, LAMBDA x : x # id)

\* getAll() returns the records in ascending key order
RECURSIVE SortedInsert(_, _)
SortedInsert(q, id) ==
  IF q = <<>> THEN <<id>>
  ELSE IF id < Head(q) THEN <<id>> \o q
  ELSE <<Head(q)>> \o SortedInsert(Tail(q), id)

Active(c) == c \notin {"idle", "done"}

\* ------------------------------------------------- the state a pass works on
Cur == [pc |-> pc, queueItems |-> queueItems, idx |-> idx,
        successCount |-> successCount, failCount |-> failCount, pend |-> pend,
        log |-> log, emitted |-> emitted, isProcessing |-> isProcessing,
        items |-> items, queue |-> queue,
        fails |-> fails, faults |-> faults]

\* Item objects of the fallback array stay alive while a suspended pass holds them.
Held(m, id) ==
  \E p \in Passes : Active(m.pc[p]) /\
     \E k \in 1..Len(m.queueItems[p]) : m.queueItems[p][k].id = id

Collect(m) ==
  [m EXCEPT !.items = [i \in Ids |->
      IF InQueue(m.queue, i) \/ (~idb /\ Held(m, i)) THEN m.items[i] ELSE NoItem]]

\* pc values at which a pass waits for a storage request
StoragePcs == {"getItems", "remove", "updGet", "updPut"}

PassWaits(c) == \E p \in Passes : c[p] \in StoragePcs

Assign(m) ==
  LET c == Collect(m) IN
  /\ pc' = c.pc
  /\ queueItems' = c.queueItems
  /\ idx' = c.idx
  /\ successCount' = c.successCount
  /\ failCount' = c.failCount
  /\ pend' = c.pend
  /\ log' = c.log
  /\ emitted' = c.emitted
  /\ isProcessing' = c.isProcessing
  /\ items' = c.items
  /\ queue' = c.queue
  /\ fails' = c.fails
  /\ faults' = c.faults

\* Requests on the object store are served in the order they were issued: a
\* request a pass issues while one of retryQueueItem is pending queues behind it.
Commit(m) ==
  /\ Assign(m)
  /\ rqFirst' = IF m.pc = pc THEN rqFirst
                ELSE rq.pc \in {"get", "put"} /\ PassWaits(m.pc)

\* a step of retryQueueItem: the request it issues queues behind the pending ones
CommitRetry(m) ==
  /\ Assign(m)
  /\ rqFirst' = FALSE

\* An element of a snapshot: a structured clone (idb), or a reference to the live
\* object shared with syncQueueFallback (fallback, [...syncQueueFallback]).
Deref(m, rec) == IF idb THEN rec ELSE m.items[rec.id]

SnapItem(m, p, k) == Deref(m, m.queueItems[p][k])

\* a storage request fails
Fault(m) == [m EXCEPT !.faults = @ + 1]

\* outcomes of a storage request: it succeeds or, in IndexedDB, fails
Outcomes == IF idb /\ faults + retryCalls < MaxUpsets THEN BOOLEAN ELSE {TRUE}

Untrack(m, id) == [m EXCEPT !.fails[id] = Untracked]

\* syncQueueFallback.splice / deleteRecord taking effect
dropItem(m, id) ==
  [m EXCEPT !.queue = RemoveId(m.queue, id)]

writeItem_updatesOnly(m, id, rec) ==
  [m EXCEPT !.items[id] = [rec EXCEPT !.payload = 0, !.createdAt = 0],
            !.queue = IF InQueue(m.queue, id) THEN m.queue
                      ELSE IF idb THEN SortedInsert(m.queue, id)
                      ELSE Append(m.queue, id)]

\* Object.assign(item, updates) / putRecord({...item, ...updates})
writeItem(m, id, rec) ==
  [m EXCEPT !.items[id] = rec,
            !.queue = IF InQueue(m.queue, id) THEN m.queue
                      ELSE IF idb THEN SortedInsert(m.queue, id)
                      ELSE Append(m.queue, id)]

\* the summary event, then finally { isProcessing = false } (lines 367-387)
Finish_keepGuard(m, p) ==
  [m EXCEPT !.pc[p] = "done", !.emitted[p] = TRUE]

Finish(m, p) ==
  [m EXCEPT !.pc[p] = "done", !.emitted[p] = TRUE, !.isProcessing = FALSE]

\* if (queueItems.length === 0) return; finally { isProcessing = false }
FinishEmpty(m, p) ==
  [m EXCEPT !.pc[p] = "done", !.isProcessing = FALSE]

Logged(m, p, out, gate) ==
  [m EXCEPT !.log[p] = Append(@, [out |-> out, gate |-> gate])]

\* history: an adapter call on item id has failed
Failed(m, id) ==
  IF m.fails[id] = Untracked THEN m ELSE [m EXCEPT !.fails[id] = @ + 1]

RECURSIVE Loop(_, _, _), processQueueItem(_, _, _), AfterItem(_, _, _),
          removeQueueItem(_, _, _, _)

\* Lines 351-360: count the result of processQueueItem, then pace or go on.
AfterItem_stopOnFailure(m, p, out) ==
  LET n  == Len(m.log[p])
      m1 == [m EXCEPT !.log[p][n].out = out, !.pend[p] = NoPend]
      m2 == IF out = "ok" THEN [m1 EXCEPT !.successCount[p] = @ + 1]
            ELSE [m1 EXCEPT !.failCount[p] = @ + 1]
  IN  IF out # "ok" THEN Finish(m2, p)
      ELSE IF Len(m.queueItems[p]) > 1 THEN [m2 EXCEPT !.pc[p] = "pace"]
      ELSE Loop(m2, p, m.idx[p] + 1)

AfterItem(m, p, out) ==
  LET n  == Len(m.log[p])
      m1 == [m EXCEPT !.log[p][n].out = out, !.pend[p] = NoPend]
      m2 == IF out = "ok" THEN [m1 EXCEPT !.successCount[p] = @ + 1]
            ELSE [m1 EXCEPT !.failCount[p] = @ + 1]
  IN  IF Len(m.queueItems[p]) > 1 THEN [m2 EXCEPT !.pc[p] = "pace"]
      ELSE Loop(m2, p, m.idx[p] + 1)

\* removeQueueItem(id) called by processQueueItem for the result `out`
removeQueueItem(m, p, id, out) ==
  IF idb
  THEN [m EXCEPT !.pc[p] = "remove",
                 !.pend[p] = [NoPend EXCEPT !.kind = out, !.id = id]]
  ELSE AfterItem(dropItem(m, id), p, out)

\* updateQueueItem(id, {retries, nextAttemptAt, lastError}) called by processQueueItem
updateQueueItem(m, p, id, n, gate) ==
  IF idb
  THEN [m EXCEPT !.pc[p] = "updGet",
                 !.pend[p] = [NoPend EXCEPT !.kind = "update", !.id = id,
                                !.retries = n, !.nextAttemptAt = gate]]
  ELSE IF InQueue(m.queue, id)
  THEN AfterItem(writeItem(m, id,
                   [m.items[id] EXCEPT !.retries = n, !.nextAttemptAt = gate,
                                       !.lastError = "err"]), p, "fail")
  ELSE AfterItem(m, p, "fail")

\* processQueueItem up to its first await (lines 242-267)
processQueueItem(m, p, k) ==
  LET item == SnapItem(m, p, k)
      m1 == Logged([m EXCEPT !.idx[p] = k], p, "calling", item.nextAttemptAt)
  IN  IF item.type \in KnownTypes
      THEN [m1 EXCEPT !.pc[p] = "adapter"]
      ELSE removeQueueItem(Untrack(m1, item.id), p, item.id, "ok")

\* the catch block of processQueueItem (lines 276-306)
processQueueItemCatch_offByOne(m, p, item, rnd) ==
  LET newRetryCount == item.retries + 1
  IN  IF newRetryCount > MAX_RETRIES
      THEN removeQueueItem(m, p, item.id, "exhausted")
      ELSE updateQueueItem(m, p, item.id, newRetryCount,
             nextAttemptTime(getRetryDelay(newRetryCount, rnd)))

processQueueItemCatch_delayOfOld(m, p, item, rnd) ==
  LET newRetryCount == item.retries + 1
  IN  IF newRetryCount >= MAX_RETRIES
      THEN removeQueueItem(m, p, item.id, "exhausted")
      ELSE updateQueueItem(m, p, item.id, newRetryCount,
             nextAttemptTime(getRetryDelay(item.retries, rnd)))

processQueueItemCatch_rethrow(m, p, item, rnd) ==
  [m EXCEPT !.pc[p] = "done", !.isProcessing = FALSE]

processQueueItemCatch(m, p, item, rnd) ==
  LET newRetryCount == item.retries + 1
  IN  IF newRetryCount >= MAX_RETRIES
      THEN removeQueueItem(m, p, item.id, "exhausted")
      ELSE updateQueueItem(m, p, item.id, newRetryCount,
             nextAttemptTime(getRetryDelay(newRetryCount, rnd)))

Loop_noSkip(m, p, k) ==
  IF k > Len(m.queueItems[p]) THEN Finish(m, p)
  ELSE processQueueItem(m, p, k)

\* the for loop from position k on (lines 342-365), then the summary
Loop(m, p, k) ==
  IF k > Len(m.queueItems[p]) THEN Finish(m, p)
  ELSE LET item == SnapItem(m, p, k) IN
       IF item.nextAttemptAt # NoGate /\ 0 < item.nextAttemptAt
       THEN Loop(Logged(m, p, "skip", item.nextAttemptAt), p, k + 1)
       ELSE processQueueItem(m, p, k)

\* getQueueItems(): getAll of the store, or a shallow copy of the array
getQueueItems(m) ==
  [k \in 1..Len(m.queue) |->
     IF idb THEN m.items[m.queue[k]] ELSE [NoItem EXCEPT !.id = m.queue[k]]]

\* lines 329-337, with the snapshot snap
StartPass(m, p, snap) ==
  LET m1 == [m EXCEPT !.queueItems[p] = snap, !.pc[p] = "loop"]
  IN  IF Len(snap) = 0 THEN FinishEmpty(m1, p) ELSE Loop(m1, p, 1)

FreeSlot(m) == CHOOSE p \in Passes :
  m.pc[p] = "idle" /\ \A q \in Passes : m.pc[q] = "idle" => p <= q

EnterPass(m) ==
  LET p  == FreeSlot(m)
      m1 == [m EXCEPT !.isProcessing = TRUE]
  IN  IF idb THEN [m1 EXCEPT !.pc[p] = "getItems"]
      ELSE StartPass(m1, p, getQueueItems(m1))

\* processSyncQueue() up to its first await (lines 315-330)
processSyncQueue_noGuard(m) ==
  IF ~online THEN m
  ELSE EnterPass(m)

processSyncQueue_noOnlineCheck(m) ==
  IF m.isProcessing THEN m
  ELSE EnterPass(m)

processSyncQueue(m) ==
  IF m.isProcessing THEN m
  ELSE IF ~online THEN m
  ELSE EnterPass(m)

\* ------------------------------------------------------------------ actions
passVars == <<pc, queueItems, idx, successCount, failCount, pend, log, emitted,
              isProcessing, items, queue, fails, faults, rqFirst>>
envVars_noCache == <<idb, online, usedIds, timers, retryCalls, dn, drnd, dout>>
envVars == <<envVars_noCache, sideVars>>

\* The promise of a finished pass is consumed before anything else runs.
Quiet == \A p \in Passes : pc[p] # "done"

CanInvoke == Quiet /\ \E p \in Passes : pc[p] = "idle"

\* the call pass p waits for can settle: a storage request is served once the
\* request retryQueueItem issued before it has been
PassReady(p) == Quiet /\ (pc[p] \in StoragePcs => ~rqFirst)

\* the storage request of retryQueueItem can settle
RetryReady ==
  /\ rq.pc \in {"get", "put"}
  /\ rqFirst \/ ~PassWaits(pc)
  /\ IF rq.pc = "put" THEN CanInvoke ELSE Quiet

\* A direct call of processSyncQueue (the export processQueue, the service worker)
DirectCall ==
  /\ CanInvoke
  /\ Commit(processSyncQueue(Cur))
  /\ UNCHANGED <<envVars, rq>>

forceSyncQueueCall_noTest(m) ==
  [m |-> processSyncQueue(m), ret |-> TRUE]

\* forceSyncQueue() (lines 532-541): the state it leaves and the value it returns
forceSyncQueueCall(m) ==
  IF m.isProcessing THEN [m |-> m, ret |-> FALSE]
  ELSE [m |-> processSyncQueue(m), ret |-> TRUE]

forceSyncQueue ==
  /\ CanInvoke
  /\ Commit(forceSyncQueueCall(Cur).m)
  /\ UNCHANGED <<envVars, rq>>

\* setInterval callback of setupAutoSync (lines 497-501)
PeriodicTick ==
  /\ CanInvoke
  /\ IF online /\ ~isProcessing THEN Commit(processSyncQueue(Cur))
     ELSE UNCHANGED passVars
  /\ UNCHANGED <<envVars, rq>>

\* setTimeout callbacks of setupAutoSync: startup (line 493), online event (line 484)
TimerFire ==
  /\ timers > 0
  /\ CanInvoke
  /\ timers' = timers - 1
  /\ Commit(processSyncQueue(Cur))
  /\ UNCHANGED <<idb, online, usedIds, retryCalls, dn, drnd, dout, sideVars, rq>>

GoOnline_noTimer ==
  /\ Quiet
  /\ ~online
  /\ online' = TRUE
  /\ UNCHANGED <<passVars, idb, usedIds, timers, retryCalls, dn, drnd, dout, sideVars, rq>>

\* window "online" event: navigator.onLine turns true, the handler arms its timer
GoOnline ==
  /\ Quiet
  /\ ~online
  /\ online' = TRUE
  /\ timers' = Min(timers + 1, MaxTimers)
  /\ UNCHANGED <<passVars, idb, usedIds, retryCalls, dn, drnd, dout, sideVars, rq>>

\* window "offline" event: only logged (lines 487-489)
GoOffline ==
  /\ Quiet
  /\ online
  /\ online' = FALSE
  /\ UNCHANGED <<passVars, idb, usedIds, timers, retryCalls, dn, drnd, dout, sideVars, rq>>

\* Time passes until the clock reaches the nextAttemptAt of item id: the stamp
\* reads as reached in the store, in the snapshots and in the pending updates.
Reached(rec, id) ==
  IF rec.id = id /\ rec.nextAttemptAt > 0 THEN [rec EXCEPT !.nextAttemptAt = 0] ELSE rec

Waiting(id) ==
  \/ items[id].id = id /\ items[id].nextAttemptAt > 0
  \/ \E p \in Passes : pend[p].id = id /\ pend[p].nextAttemptAt > 0
  \/ \E p \in Passes : \E k \in 1..Len(queueItems[p]) :
        queueItems[p][k].id = id /\ queueItems[p][k].nextAttemptAt > 0

Tick(id) ==
  /\ Quiet
  /\ Waiting(id)
  /\ items' = [i \in Ids |-> Reached(items[i], id)]
  /\ queueItems' = [p \in Passes |-> [k \in 1..Len(queueItems[p]) |->
                      Reached(queueItems[p][k], id)]]
  /\ pend' = [p \in Passes |-> Reached(pend[p], id)]
  /\ UNCHANGED <<pc, idx, successCount, failCount, log, emitted, isProcessing, queue,
                 fails, faults, envVars, rq, rqFirst>>

\* await getQueueItems() of a pass resolves (idb): lines 330-337; a fault of
\* getAll is swallowed and read as an empty queue (lines 187-190)
GetItems(p) ==
  /\ pc[p] = "getItems"
  /\ PassReady(p)
  /\ \E ok \in Outcomes :
       Commit(IF ok THEN StartPass(Cur, p, getQueueItems(Cur))
              ELSE StartPass(Fault(Cur), p, <<>>))
  /\ UNCHANGED <<envVars, rq>>

\* the adapter call (insertFinalProject / insertFeedback) settles
AdapterSettles(p, ok, rnd) ==
  /\ pc[p] = "adapter"
  /\ PassReady(p)
  /\ LET item == SnapItem(Cur, p, idx[p])
     IN  Commit(IF ok THEN removeQueueItem(Untrack(Cur, item.id), p, item.id, "ok")
                ELSE processQueueItemCatch(Failed(Cur, item.id), p, item, rnd))
  /\ UNCHANGED <<envVars, rq>>

AdapterReturn(p) ==
  \E ok \in BOOLEAN, rnd \in {0, RandRes - 1} : AdapterSettles(p, ok, rnd)

\* await removeFromSyncQueue(id) settles (idb); a fault is swallowed (lines 207-210)
RemoveReturn(p) ==
  /\ pc[p] = "remove"
  /\ PassReady(p)
  /\ \E ok \in Outcomes :
       LET id == pend[p].id
           out == pend[p].kind
       IN  Commit(IF ok THEN AfterItem(dropItem(Cur, id), p, out)
                  ELSE AfterItem(Fault(Cur), p, out))
  /\ UNCHANGED <<envVars, rq>>

\* updateSyncQueueItem: await getRecord settles (lines 846-847); of the record read
\* only the fields the updates leave alone are kept
UpdateGet(p) ==
  /\ pc[p] = "updGet"
  /\ PassReady(p)
  /\ \E ok \in Outcomes :
       LET id == pend[p].id
       IN  Commit(IF ok /\ InQueue(queue, id)
                  THEN [Cur EXCEPT !.pc[p] = "updPut",
                                   !.pend[p].item = [items[id] EXCEPT !.retries = 0,
                                        !.nextAttemptAt = NoGate, !.lastError = "none"]]
                  ELSE AfterItem(IF ok THEN Cur ELSE Fault(Cur), p, "fail"))
  /\ UNCHANGED <<envVars, rq>>

\* updateSyncQueueItem: await putRecord settles (lines 849-851)
UpdatePut(p) ==
  /\ pc[p] = "updPut"
  /\ PassReady(p)
  /\ \E ok \in Outcomes :
       LET id == pend[p].id
           rec == [pend[p].item EXCEPT !.retries = pend[p].retries,
                                       !.nextAttemptAt = pend[p].nextAttemptAt,
                                       !.lastError = "err"]
       IN  Commit(IF ok THEN AfterItem(writeItem(Cur, id, rec), p, "fail")
                  ELSE AfterItem(Fault(Cur), p, "fail"))
  /\ UNCHANGED <<envVars, rq>>

\* the pacing timer of line 359 fires (setTimeout(resolve, 500)); the time that
\* went by meanwhile is what Tick has added
Pace(p) ==
  /\ pc[p] = "pace"
  /\ PassReady(p)
  /\ Commit(Loop(Cur, p, idx[p] + 1))
  /\ UNCHANGED <<envVars, rq>>

\* the promise of a finished pass is consumed
Return(p) ==
  /\ pc[p] = "done"
  /\ Commit([Cur EXCEPT !.pc[p] = "idle", !.queueItems[p] = <<>>, !.idx[p] = 0,
                        !.successCount[p] = 0, !.failCount[p] = 0,
                        !.log[p] = <<>>, !.emitted[p] = FALSE])
  /\ UNCHANGED <<envVars, rq>>

PassStep(p) ==
  \/ GetItems(p)
  \/ AdapterReturn(p)
  \/ RemoveReturn(p)
  \/ UpdateGet(p)
  \/ UpdatePut(p)
  \/ Pace(p)
  \/ Return(p)

\* A pass waits for its getAll: a write transaction on the store opened after
\* the read has been requested starts once the read is done, so the record an
\* enqueue adds meanwhile is added after the snapshot has been read.
ReadPending == \E p \in Passes : pc[p] = "getItems"

\* enqueue(type, payload) (lines 153-177) over addToSyncQueue (idb lines 824-835);
\* a fault of addRecord is rethrown and nothing is stored.  The fallback array
\* does not depend on the id drawn, so there the smallest fresh id stands for all.
\* createdAt is the reading of a logical clock: the rank of the enqueue.
enqueueCall_retriesOne(m, id, type, payload, ok) ==
  LET queueItem == [id |-> id, type |-> type, payload |-> payload,
                    createdAt |-> Cardinality(usedIds) + 1, retries |-> 1,
                    nextAttemptAt |-> NoGate, lastError |-> "none"]
  IN  IF ok
      THEN [m |-> [writeItem(m, id, queueItem) EXCEPT !.fails[id] = 0],
            ret |-> queueItem, threw |-> FALSE]
      ELSE [m |-> Fault(m), ret |-> NoItem, threw |-> TRUE]

enqueueCall_swallow(m, id, type, payload, ok) ==
  LET queueItem == [id |-> id, type |-> type, payload |-> payload,
                    createdAt |-> Cardinality(usedIds) + 1, retries |-> 0,
                    nextAttemptAt |-> NoGate, lastError |-> "none"]
  IN  [m |-> [writeItem(m, id, queueItem) EXCEPT !.fails[id] = 0],
       ret |-> queueItem, threw |-> FALSE]

\* as enqueueCall, the passes in progress iterating over the live queue
enqueueCall_live(m, id, type, payload, ok) ==
  LET queueItem == [id |-> id, type |-> type, payload |-> payload,
                    createdAt |-> Cardinality(usedIds) + 1, retries |-> 0,
                    nextAttemptAt |-> NoGate, lastError |-> "none"]
      m1 == [writeItem(m, id, queueItem) EXCEPT !.fails[id] = 0]
  IN  IF ok
      THEN [m |-> [m1 EXCEPT !.queueItems = [p \in Passes |->
                      IF Active(m.pc[p]) /\ m.pc[p] # "getItems"
                      THEN Append(m.queueItems[p], queueItem)
                      ELSE m.queueItems[p]]],
            ret |-> queueItem, threw |-> FALSE]
      ELSE [m |-> Fault(m), ret |-> NoItem, threw |-> TRUE]

\* the state enqueue leaves, the item it returns and whether it throws, the write
\* of the item succeeding (ok) or rejecting
enqueueCall(m, id, type, payload, ok) ==
  LET queueItem == [id |-> id, type |-> type, payload |-> payload,
                    createdAt |-> Cardinality(usedIds) + 1, retries |-> 0,
                    nextAttemptAt |-> NoGate, lastError |-> "none"]
  IN  IF ok
      THEN [m |-> [writeItem(m, id, queueItem) EXCEPT !.fails[id] = 0],
            ret |-> queueItem, threw |-> FALSE]
      ELSE [m |-> Fault(m), ret |-> NoItem, threw |-> TRUE]

enqueue(id, type, payload) ==
  /\ Quiet
  /\ ~ReadPending
  /\ id \notin usedIds
  /\ idb \/ \A j \in Ids \ usedIds : id <= j
  /\ \E ok \in Outcomes :
       LET r == enqueueCall(Cur, id, type, payload, ok)
       IN  /\ usedIds' = IF r.threw THEN usedIds ELSE usedIds \cup {id}
           /\ Commit(r.m)
  /\ UNCHANGED <<idb, online, timers, retryCalls, dn, drnd, dout, sideVars, rq>>

ResetFields_oneLess(rec) ==
  [rec EXCEPT !.retries = IF @ > 0 THEN @ - 1 ELSE 0,
              !.nextAttemptAt = NoGate, !.lastError = "none"]

\* the updates of retryQueueItem applied to a record (lines 455-459)
ResetFields(rec) ==
  [rec EXCEPT !.retries = 0, !.nextAttemptAt = NoGate, !.lastError = "none"]

\* retryQueueItem after a successful update (lines 461-468); await on a settled
\* promise resumes in the same task, so no other callback runs in between
retryQueueItemCont(m) == IF online THEN processSyncQueue(m) ELSE m

\* updateQueueItem(itemId, updates) of retryQueueItem without IndexedDB
\* (lines 219-225): the state it leaves and whether it returned the item
retryUpdate(m, id) ==
  IF InQueue(m.queue, id)
  THEN [m |-> writeItem(m, id, ResetFields(m.items[id])), updated |-> TRUE]
  ELSE [m |-> m, updated |-> FALSE]

\* updateSyncQueueItem of retryQueueItem, its getRecord settling (lines 846-849):
\* {...item, ...updates} is kept as the record to put; no record, or a rejected
\* read (swallowed at lines 227-230), ends the update with null
retryGet(m, r, ok) ==
  IF ok /\ InQueue(m.queue, r.id)
  THEN [m |-> m, rq |-> [r EXCEPT !.pc = "put", !.item = ResetFields(m.items[r.id])],
        updated |-> FALSE]
  ELSE [m |-> IF ok THEN m ELSE Fault(m), rq |-> NoRq, updated |-> FALSE]

retryPut_noWrite(m, r, ok) ==
  [m |-> IF ok THEN m ELSE Fault(m), updated |-> ok]

\* updateSyncQueueItem of retryQueueItem, its putRecord settling (lines 850-851)
retryPut(m, r, ok) ==
  IF ok THEN [m |-> writeItem(m, r.id, r.item), updated |-> TRUE]
  ELSE [m |-> Fault(m), updated |-> FALSE]

\* retryQueueItem once its update has returned (lines 461-474): the state it
\* leaves and the value it returns
retryQueueItemEnd(u) ==
  IF u.updated THEN [m |-> retryQueueItemCont(u.m), ret |-> TRUE]
  ELSE [m |-> u.m, ret |-> FALSE]

\* retryQueueItem(itemId) up to its first await on a storage request
\* (lines 453-459, 214-226)
retryQueueItem(id) ==
  /\ CanInvoke
  /\ rq.pc = "idle"
  /\ id \in usedIds
  /\ faults + retryCalls < MaxUpsets
  /\ retryCalls' = retryCalls + 1
  /\ IF idb
     THEN /\ rq' = [NoRq EXCEPT !.pc = "get", !.id = id]
          /\ CommitRetry(Untrack(Cur, id))
     ELSE /\ rq' = NoRq
          /\ CommitRetry(retryQueueItemEnd(retryUpdate(Untrack(Cur, id), id)).m)
  /\ UNCHANGED <<idb, online, usedIds, timers, dn, drnd, dout, sideVars>>

\* updateSyncQueueItem of retryQueueItem: await getRecord settles
RetryGet ==
  /\ rq.pc = "get"
  /\ RetryReady
  /\ \E ok \in Outcomes :
       /\ rq' = retryGet(Cur, rq, ok).rq
       /\ CommitRetry(retryGet(Cur, rq, ok).m)
  /\ UNCHANGED envVars

\* updateSyncQueueItem of retryQueueItem: await putRecord settles, then
\* retryQueueItem goes on
RetryPut ==
  /\ rq.pc = "put"
  /\ RetryReady
  /\ rq' = NoRq
  /\ \E ok \in Outcomes :
       CommitRetry(retryQueueItemEnd(retryPut(Cur, rq, ok)).m)
  /\ UNCHANGED envVars

clearFailedQueueItemsCall_oneEarlier(m, okRead, okDel) ==
  LET snap == IF okRead THEN getQueueItems(m) ELSE <<>>
      failed == {snap[k].id : k \in {j \in 1..Len(snap) :
                                       Deref(m, snap[j]).retries >= MAX_RETRIES - 1}}
      m1 == IF okRead THEN m ELSE Fault(m)
  IN  [m |-> IF okDel
             THEN [m1 EXCEPT !.queue = SelectSeq(@, LAMBDA x : x \notin failed),
                     !.fails = [i \in Ids |-> IF i \in failed THEN Untracked ELSE @[i]]]
             ELSE m1,
       ret |-> Cardinality(failed)]

\* clearFailedQueueItems() (lines 432-450): the state it leaves and the count it
\* returns, its read of the items resolving (okRead) or rejecting and read as []
\* (lines 187-190), its deletes taking effect (okDel) or rejecting (swallowed,
\* lines 207-210); clearedCount is counted whatever removeQueueItem returns
clearFailedQueueItemsCall(m, okRead, okDel) ==
  LET snap == IF okRead THEN getQueueItems(m) ELSE <<>>
      failed == {snap[k].id : k \in {j \in 1..Len(snap) :
                                       Deref(m, snap[j]).retries >= MAX_RETRIES}}
      m1 == IF okRead THEN m ELSE Fault(m)
  IN  [m |-> IF okDel
             THEN [m1 EXCEPT !.queue = SelectSeq(@, LAMBDA x : x \notin failed),
                     !.fails = [i \in Ids |-> IF i \in failed THEN Untracked ELSE @[i]]]
             ELSE m1,
       ret |-> Cardinality(failed)]

clearFailedQueueItems ==
  /\ Quiet
  /\ \E ok \in Outcomes : Commit(clearFailedQueueItemsCall(Cur, ok, TRUE).m)
  /\ UNCHANGED <<envVars, rq>>

\* getSyncQueueStatus() (lines 391-429) on the items read: the bucket of an item
Bucket(rec) ==
  IF rec.retries >= MAX_RETRIES THEN "failed"
  ELSE IF rec.nextAttemptAt # NoGate /\ 0 < rec.nextAttemptAt THEN "pending"
  ELSE "ready"

InBucket(b) == {id \in Ids : InQueue(queue, id) /\ Bucket(items[id]) = b}

\* the forEach of lines 406-414 from position k of the items read on
RECURSIVE countItems(_, _, _, _)
countItems(m, snap, k, st) ==
  IF k > Len(snap) THEN st
  ELSE LET item == Deref(m, snap[k])
       IN  countItems(m, snap, k + 1,
             IF item.retries >= MAX_RETRIES
             THEN [st EXCEPT !.failedItems = @ + 1]
             ELSE IF item.nextAttemptAt # NoGate /\ 0 < item.nextAttemptAt
             THEN [st EXCEPT !.pendingItems = @ + 1]
             ELSE [st EXCEPT !.readyToRetry = @ + 1])

\* a storage request resolves (TRUE) or, in IndexedDB, rejects
StorageOutcomes == IF idb THEN BOOLEAN ELSE {TRUE}

\* getSyncQueueStatus() (lines 391-416) in state m, its read of the items
\* resolving (ok) or rejecting; a rejected read is read as [] (lines 187-190)
getSyncQueueStatusCall(m, ok) ==
  LET snap == IF ok THEN getQueueItems(m) ELSE <<>>
  IN  countItems(m, snap, 1,
        [totalItems |-> Len(snap), pendingItems |-> 0, failedItems |-> 0,
         readyToRetry |-> 0, isProcessing |-> m.isProcessing, isOnline |-> online])

getSyncQueueStatus == getSyncQueueStatusCall(Cur, TRUE)

\* getRetryDelay as a pure function: one call with retry count n and draw rnd
Backoff(n, rnd) ==
  /\ dn' = n
  /\ drnd' = rnd
  /\ dout' = getRetryDelay(n, rnd)
  /\ UNCHANGED <<passVars, idb, online, usedIds, timers, retryCalls, rq, sideVars>>

\* ------------------------------------------------------------ cache layer
\* src/utils/idb.js (store "cache", keyPath "key") as used by
\* src/api/netlifyProxy.js.  The clock is observed a cache duration apart, so
\* that an entry's age is below, at or above each threshold.
\* 24 * 60 * 60 * 1000 ms (netlifyProxy.js line 16)
OPENAI_CACHE_DURATION == 86400000
\* 7 * 24 * 60 * 60 * 1000 ms (netlifyProxy.js line 17)
TRANSLATE_CACHE_DURATION == 604800000
\* maxAgeMs = 24 * 60 * 60 * 1000 (clearExpiredCache, line 871)
DefaultMaxAge == 86400000

Prompts == {"idea"}
Texts == {"hola"}
Langs == {"es", " ES"}
Models == {"gpt-3.5-turbo"}
\* The key strings `openai_${prompt}_${draftNumber}_${model}` and
\* `translate_${text}_${targetLang}`, as the sequence of their parts.
KeyStrings ==
  <<  <<"openai", "idea", "1", "gpt-3.5-turbo">>,
      <<"translate", "hola", "es">>,
      <<"translate", "hola", " ES">>  >>
\* SHA-256 hex digest: equal strings have equal digests, distinct strings of the
\* model distinct ones; the digest is the position of the string in KeyStrings
generateHash(input) == CHOOSE k \in 1..Len(KeyStrings) : KeyStrings[k] = input
CacheKeys == 1..Len(KeyStrings)
CacheTypes == {"openai", "translate"}
Datas == 1..MaxData
NoKey == 0
NoEntry == [key |-> NoKey, data |-> 0, type |-> "none", createdAt |-> <<0, 0>>]

\* new Date(ms).toISOString() keeps seconds and milliseconds apart
\* ("...ss.sssZ"); new Date(iso).getTime() puts them together again
toISOString(ms) == <<ms \div 1000, ms % 1000>>
getTime(iso) == iso[1] * 1000 + iso[2]

\* a request on the store "cache" settles either way while IndexedDB can be
\* opened; ensureDB rejects otherwise
CacheOutcomes == IF idb THEN BOOLEAN ELSE {FALSE}

\* getCacheItem(key): db.get gives undefined (NoEntry) for a missing key
getCacheItemCall(c, key, ok) ==
  [ret |-> IF ok THEN c[key] ELSE NoEntry, threw |-> ~ok]

getCacheItem(c, key) == getCacheItemCall(c, key, TRUE).ret

setCacheItemCall_keepFirst(c, t, key, data, type, ok) ==
  LET cacheItem == [key |-> key, data |-> data, type |-> type,
                    createdAt |-> toISOString(t)]
  IN  [cache |-> IF ok /\ c[key] = NoEntry THEN [c EXCEPT ![key] = cacheItem] ELSE c,
       ret |-> cacheItem, threw |-> ~ok]

\* setCacheItem(key, data, type): the entry is built, put (upsert) and returned;
\* a rejected put leaves the store alone and the call throws
setCacheItemCall(c, t, key, data, type, ok) ==
  LET cacheItem == [key |-> key, data |-> data, type |-> type,
                    createdAt |-> toISOString(t)]
  IN  [cache |-> IF ok THEN [c EXCEPT ![key] = cacheItem] ELSE c,
       ret |-> cacheItem, threw |-> ~ok]

\* store.openCursor(): the record with the least key, or null on an empty store
openCursor(c) ==
  IF \A k \in CacheKeys : c[k] = NoEntry THEN NoKey
  ELSE CHOOSE k \in CacheKeys : c[k] # NoEntry /\ \A j \in 1..(k - 1) : c[j] = NoEntry

\* The while loop of clearExpiredCache.  `cursor` is a const: it stays the
\* object openCursor() resolved to, and its value stays the record it was
\* positioned on until a continue() request has succeeded.  cursor.continue()
\* is not awaited, so from then on the cursor has no value to act on (its
\* request is pending) and IndexedDB rejects delete() and continue() with
\* InvalidStateError, which ends the function by an exception.
RECURSIVE sweepLoop(_)
sweepLoop(st) ==
  IF st.cursor = NoKey THEN [st EXCEPT !.pc = "returned"]
  ELSE
    LET seen == [st EXCEPT !.visits[st.cursor] = @ + 1]
        expired == getTime(st.value.createdAt) < st.cutoffTime
        deleted == IF expired
                   THEN [seen EXCEPT !.cache[st.cursor] = NoEntry,
                                     !.deletedCount = @ + 1]
                   ELSE seen
    IN  IF expired /\ ~st.gotValue THEN [seen EXCEPT !.pc = "threw"]
        ELSE IF ~st.gotValue THEN [deleted EXCEPT !.pc = "threw"]
        ELSE sweepLoop([deleted EXCEPT !.gotValue = FALSE])

\* clearExpiredCache(maxAgeMs), lines 871-891
clearExpiredCacheCall(c, t, maxAgeMs, ok) ==
  LET first == openCursor(c)
      st0 == [pc |-> "loop", cache |-> c, cursor |-> first,
              value |-> IF first = NoKey THEN NoEntry ELSE c[first],
              gotValue |-> first # NoKey, cutoffTime |-> t - maxAgeMs,
              deletedCount |-> 0, visits |-> [k \in CacheKeys |-> 0]]
      end == IF ok THEN sweepLoop(st0) ELSE [st0 EXCEPT !.pc = "threw"]
  IN  [cache |-> end.cache, threw |-> end.pc = "threw",
       ret |-> end.deletedCount, visits |-> end.visits]

cacheIdle == UNCHANGED <<passVars, envVars_noCache, rq, proxyVars>>

\* a producer stores a result
SetCacheItem(key, data, type) ==
  /\ \E ok \in CacheOutcomes :
       cache' = setCacheItemCall(cache, now, key, data, type, ok).cache
  /\ UNCHANGED now
  /\ cacheIdle

\* the maintenance sweep
ClearExpiredCache(maxAgeMs) ==
  /\ \E ok \in CacheOutcomes :
       cache' = clearExpiredCacheCall(cache, now, maxAgeMs, ok).cache
  /\ UNCHANGED now
  /\ cacheIdle

\* the clock moves on by a cache duration, up to limit
Advance(d, limit) ==
  /\ now + d <= limit
  /\ now' = now + d
  /\ UNCHANGED cache
  /\ cacheIdle

\* ------------------------------------------------------------ cached proxy
\* src/api/netlifyProxy.js: postOpenAI, postTranslate and batchTranslate
\* consult the cache, then go through debounce, checkRateLimit and fetch.
DEBOUNCE_DELAY == 800
RATE_LIMIT_WINDOW == 60000
MAX_REQUESTS_PER_MINUTE == 20

CallIds == 1..MaxCalls
NoCall == [kind |-> "none", key |-> NoKey, st |-> "none"]
Fallback == 0 - 1      \* results[text] = text: the original text
Unset == 0
NoBatch == [pc |-> "idle", textArray |-> <<>>, targetLang |-> "", i |-> 0,
            results |-> [t \in Texts |-> Unset], uncachedTexts |-> <<>>,
            waitFor |-> 0]

\* String.prototype.trim and toLowerCase on the strings of the model
trim(s) ==
  CASE s = " ES" -> "ES"
    [] s = " es" -> "es"
    [] OTHER -> s

toLowerCase(s) ==
  CASE s = " ES" -> " es"
    [] s = "ES" -> "es"
    [] OTHER -> s

generateOpenAICacheKey(prompt, draftNumber, model) ==
  generateHash(<<"openai", prompt, draftNumber, model>>)

generateTranslateCacheKey(text, targetLang) ==
  generateHash(<<"translate", text, targetLang>>)

\* the module state of netlifyProxy.js next to the cache store and the clock
PCur == [cache |-> cache, now |-> now, debounceMap |-> debounceMap,
         calls |-> calls, requestHistory |-> requestHistory]

PAssign(m) ==
  /\ cache' = m.cache
  /\ now' = m.now
  /\ debounceMap' = m.debounceMap
  /\ calls' = m.calls
  /\ requestHistory' = m.requestHistory

cacheLookup_inclusive(m, key, duration, ok) ==
  LET r == getCacheItemCall(m.cache, key, ok)
  IN  [hit |-> /\ ~r.threw
               /\ r.ret # NoEntry
               /\ m.now - getTime(r.ret.createdAt) <= duration,
       data |-> r.ret.data]

\* "Check cache first": try { cached = await getCacheItem(cacheKey); if (cached &&
\* Date.now() - new Date(cached.createdAt).getTime() < duration) return cached.data }
\* catch { warn }
cacheLookup(m, key, duration, ok) ==
  LET r == getCacheItemCall(m.cache, key, ok)
  IN  [hit |-> /\ ~r.threw
               /\ r.ret # NoEntry
               /\ m.now - getTime(r.ret.createdAt) < duration,
       data |-> r.ret.data]

\* debounce(func, key): a pending timer under the key is cleared (its promise
\* is left as it is), a new timer is armed and registered
debounce(m, id, kind, key) ==
  LET old == m.debounceMap[key]
  IN  [m EXCEPT
        !.calls = [c \in CallIds |->
                     IF c = id THEN [kind |-> kind, key |-> key, st |-> "timer"]
                     ELSE IF c = old /\ m.calls[c].st = "timer"
                          THEN [m.calls[c] EXCEPT !.st = "replaced"]
                          ELSE m.calls[c]],
        !.debounceMap[key] = id]

\* postOpenAI(prompt) with draftNumber 1 and no options, up to its return or to
\* the arming of the debounce timer; id is the promise a miss returns
postOpenAICall(m, id, prompt, ok) ==
  IF prompt = "" THEN [m |-> m, threw |-> TRUE, hit |-> FALSE, ret |-> 0]
  ELSE
    LET selectedModel == "gpt-3.5-turbo"
        cacheKey == generateOpenAICacheKey(prompt, "1", selectedModel)
        look == cacheLookup(m, cacheKey, OPENAI_CACHE_DURATION, ok)
    IN  IF look.hit
        THEN [m |-> m, threw |-> FALSE, hit |-> TRUE, ret |-> look.data]
        ELSE [m |-> debounce(m, id, "openai", cacheKey), threw |-> FALSE,
              hit |-> FALSE, ret |-> 0]

\* postTranslate(text, targetLang), likewise
postTranslateCall(m, id, text, targetLang, ok) ==
  IF trim(text) = "" \/ trim(targetLang) = ""
  THEN [m |-> m, threw |-> TRUE, hit |-> FALSE, ret |-> 0]
  ELSE
    LET trimmedText == trim(text)
        normalizedLang == trim(toLowerCase(targetLang))
        cacheKey == generateTranslateCacheKey(trimmedText, normalizedLang)
        look == cacheLookup(m, cacheKey, TRANSLATE_CACHE_DURATION, ok)
    IN  IF look.hit
        THEN [m |-> m, threw |-> FALSE, hit |-> TRUE, ret |-> look.data]
        ELSE [m |-> debounce(m, id, "translate", cacheKey), threw |-> FALSE,
              hit |-> FALSE, ret |-> 0]

\* checkRateLimit(endpoint): the requests of the last minute are kept; the
\* twentieth within the window throws, otherwise this one is recorded
checkRateLimit(m, endpoint) ==
  LET requests == m.requestHistory[endpoint]
      validRequests == SelectSeq(requests, LAMBDA time : m.now - time < RATE_LIMIT_WINDOW)
  IN  IF Len(validRequests) >= MAX_REQUESTS_PER_MINUTE
      THEN [m |-> [m EXCEPT !.requestHistory[endpoint] = validRequests], threw |-> TRUE]
      ELSE [m |-> [m EXCEPT !.requestHistory[endpoint] = Append(validRequests, m.now)],
            threw |-> FALSE]

\* finally { debounceMap.delete(key) } of the timer callback
settle(m, id, st) ==
  [m EXCEPT !.calls[id].st = st, !.debounceMap[m.calls[id].key] = 0]

\* the timer callback up to the fetch
timerFired(m, id) ==
  LET r == checkRateLimit(m, m.calls[id].kind)
  IN  IF r.threw THEN settle(r.m, id, "rejected")
      ELSE [r.m EXCEPT !.calls[id].st = "fetch"]

\* the fetch settles: a good response (its result is told apart by the call
\* that fetched it) is stored, a failing store is only warned about, and the
\* promise resolves; anything else rejects it
fetchSettled(m, id, good, ok) ==
  IF good
  THEN LET s == setCacheItemCall(m.cache, m.now, m.calls[id].key, id, m.calls[id].kind, ok)
       IN  settle([m EXCEPT !.cache = s.cache], id, "resolved")
  ELSE settle(m, id, "rejected")

FreeCall == IF \E c \in CallIds : calls[c] = NoCall
            THEN CHOOSE c \in CallIds : calls[c] = NoCall /\ \A j \in 1..(c - 1) : calls[j] # NoCall
            ELSE 0

InFlight == \E c \in CallIds : calls[c].st \in {"timer", "fetch"}

proxyIdle == UNCHANGED <<passVars, envVars_noCache, rq>>

PostOpenAI(prompt) ==
  /\ FreeCall # 0
  /\ \E ok \in CacheOutcomes : PAssign(postOpenAICall(PCur, FreeCall, prompt, ok).m)
  /\ UNCHANGED batch
  /\ proxyIdle

PostTranslate(text, targetLang) ==
  /\ FreeCall # 0
  /\ \E ok \in CacheOutcomes : PAssign(postTranslateCall(PCur, FreeCall, text, targetLang, ok).m)
  /\ UNCHANGED batch
  /\ proxyIdle

DebounceFires(id) ==
  /\ calls[id].st = "timer"
  /\ PAssign(timerFired(PCur, id))
  /\ UNCHANGED batch
  /\ proxyIdle

FetchSettles(id) ==
  /\ calls[id].st = "fetch"
  /\ \E good \in BOOLEAN, ok \in CacheOutcomes : PAssign(fetchSettled(PCur, id, good, ok))
  /\ UNCHANGED batch
  /\ proxyIdle

\* batchTranslate(textArray, targetLang): entry, lines 287-298
BatchStart(textArray, targetLang) ==
  /\ batch.pc \in {"idle", "done"}
  /\ batch' = [NoBatch EXCEPT !.pc = "check", !.textArray = textArray,
                              !.targetLang = targetLang, !.i = 1]
  /\ UNCHANGED <<cacheVars, debounceMap, calls, requestHistory>>
  /\ proxyIdle

\* one turn of its first loop, lines 301-319
batchChecked(b, m, ok) ==
  LET text == b.textArray[b.i]
      cacheKey == generateTranslateCacheKey(text, b.targetLang)
      look == cacheLookup(m, cacheKey, TRANSLATE_CACHE_DURATION, ok)
      b1 == IF look.hit THEN [b EXCEPT !.results[text] = look.data]
            ELSE [b EXCEPT !.uncachedTexts = Append(@, text)]
  IN  IF b.i < Len(b.textArray) THEN [b1 EXCEPT !.i = @ + 1]
      ELSE [b1 EXCEPT !.pc = "translate", !.i = 1]

BatchCheck ==
  /\ batch.pc = "check"
  /\ \E ok \in CacheOutcomes : batch' = batchChecked(batch, PCur, ok)
  /\ UNCHANGED <<cacheVars, debounceMap, calls, requestHistory>>
  /\ proxyIdle

\* after results[text] is set in the second loop: the 500 ms delay unless
\* this was the last text (lines 335-338); the catch of line 339 skips it
batchNext(b, delay) ==
  IF delay /\ b.i < Len(b.uncachedTexts) THEN [b EXCEPT !.pc = "delay"]
  ELSE [b EXCEPT !.pc = "translate", !.i = @ + 1]

\* the second loop calls postTranslate for the next uncached text, or the
\* function returns results (lines 328-348)
BatchTranslate ==
  /\ batch.pc = "translate"
  /\ IF batch.i > Len(batch.uncachedTexts)
     THEN /\ batch' = [batch EXCEPT !.pc = "done"]
          /\ UNCHANGED <<cacheVars, debounceMap, calls, requestHistory>>
     ELSE /\ FreeCall # 0
          /\ \E ok \in CacheOutcomes :
               LET text == batch.uncachedTexts[batch.i]
                   r == postTranslateCall(PCur, FreeCall, text, batch.targetLang, ok)
               IN  /\ PAssign(r.m)
                   /\ batch' = IF r.threw
                               THEN batchNext([batch EXCEPT !.results[text] = Fallback], FALSE)
                               ELSE IF r.hit
                               THEN batchNext([batch EXCEPT !.results[text] = r.ret], TRUE)
                               ELSE [batch EXCEPT !.pc = "wait", !.waitFor = FreeCall]
  /\ proxyIdle

\* the awaited postTranslate settles
BatchResume ==
  /\ batch.pc = "wait"
  /\ calls[batch.waitFor].st \in {"resolved", "rejected"}
  /\ LET text == batch.uncachedTexts[batch.i]
     IN  batch' = IF calls[batch.waitFor].st = "resolved"
                  THEN batchNext([batch EXCEPT !.results[text] = batch.waitFor,
                                               !.waitFor = 0], TRUE)
                  ELSE batchNext([batch EXCEPT !.results[text] = Fallback,
                                               !.waitFor = 0], FALSE)
  /\ UNCHANGED <<cacheVars, debounceMap, calls, requestHistory>>
  /\ proxyIdle

BatchDelay ==
  /\ batch.pc = "delay"
  /\ batch' = [batch EXCEPT !.pc = "translate", !.i = @ + 1]
  /\ UNCHANGED <<cacheVars, debounceMap, calls, requestHistory>>
  /\ proxyIdle

\* a day passes; debounce timers and fetches do not stay pending that long
ProxyAdvance ==
  /\ ~InFlight
  /\ Advance(OPENAI_CACHE_DURATION, MaxDays * OPENAI_CACHE_DURATION)

\* ------------------------------------------------------------ specification
\* The page after module load and setupAutoSync(): empty queue, startup timer armed
\* if online (line 492).
Init ==
  /\ idb \in BOOLEAN
  /\ online \in BOOLEAN
  /\ isProcessing = FALSE
  /\ items = [i \in Ids |-> NoItem]
  /\ queue = <<>>
  /\ usedIds = {}
  /\ pc = [p \in Passes |-> "idle"]
  /\ queueItems = [p \in Passes |-> <<>>]
  /\ idx = [p \in Passes |-> 0]
  /\ successCount = [p \in Passes |-> 0]
  /\ failCount = [p \in Passes |-> 0]
  /\ pend = [p \in Passes |-> NoPend]
  /\ log = [p \in Passes |-> <<>>]
  /\ emitted = [p \in Passes |-> FALSE]
  /\ rq = NoRq
  /\ timers = IF online THEN 1 ELSE 0
  /\ fails = [i \in Ids |-> Untracked]
  /\ faults = 0
  /\ retryCalls = 0
  /\ rqFirst = FALSE
  /\ dn = 0
  /\ drnd = 0
  /\ dout = getRetryDelay(0, 0)
  /\ cache = [k \in CacheKeys |-> NoEntry]
  /\ now = 0
  /\ debounceMap = [k \in CacheKeys |-> 0]
  /\ calls = [c \in CallIds |-> NoCall]
  /\ requestHistory = [e \in CacheTypes |-> <<>>]
  /\ batch = NoBatch

Next ==
  \/ \E id \in Ids, type \in Types, payload \in Payloads : enqueue(id, type, payload)
  \/ DirectCall
  \/ forceSyncQueue
  \/ PeriodicTick
  \/ TimerFire
  \/ GoOnline
  \/ GoOffline
  \/ \E id \in Ids : Tick(id)
  \/ \E p \in Passes : PassStep(p)
  \/ \E id \in Ids : retryQueueItem(id)
  \/ RetryGet
  \/ RetryPut
  \/ clearFailedQueueItems

Spec == Init /\ [][Next]_vars

\* Connectivity restored: items are enqueued while the page is offline, a drain
\* invoked offline, then the page goes online and stays online; the triggers of
\* setupAutoSync are the only callers of processSyncQueue and every adapter call
\* succeeds.  Timers fire and pending calls settle (event loop).
RestoreNext ==
  \/ \E id \in Ids, type \in Types, payload \in Payloads :
        ~online /\ enqueue(id, type, payload)
  \/ ~online /\ DirectCall
  \/ GoOnline
  \/ TimerFire
  \/ PeriodicTick
  \/ \E p \in Passes : GetItems(p)
  \/ \E p \in Passes : AdapterSettles(p, TRUE, 0)
  \/ \E p \in Passes : RemoveReturn(p)
  \/ \E p \in Passes : Pace(p)
  \/ \E p \in Passes : Return(p)

RestoreSpec ==
  /\ Init
  /\ [][RestoreNext]_vars
  /\ WF_vars(TimerFire)
  /\ WF_vars(PeriodicTick)
  /\ \A p \in Passes :
       /\ WF_vars(GetItems(p))
       /\ WF_vars(AdapterSettles(p, TRUE, 0))
       /\ WF_vars(RemoveReturn(p))
       /\ WF_vars(Pace(p))
       /\ WF_vars(Return(p))

\* The page stays online: items are enqueued at any time, also while a pass
\* is in progress; passes are started by the startup timer, the periodic timer
\* and direct calls; adapter calls and storage requests settle either way.
\* The periodic timer keeps firing and pending calls settle (event loop); no
\* retry gate is reached meanwhile, so an item that has failed keeps waiting.
DrainNext ==
  \/ \E id \in Ids, type \in Types, payload \in Payloads : enqueue(id, type, payload)
  \/ DirectCall
  \/ TimerFire
  \/ PeriodicTick
  \/ \E p \in Passes : GetItems(p)
  \/ \E p \in Passes, ok \in BOOLEAN : AdapterSettles(p, ok, 0)
  \/ \E p \in Passes : RemoveReturn(p)
  \/ \E p \in Passes : UpdateGet(p)
  \/ \E p \in Passes : UpdatePut(p)
  \/ \E p \in Passes : Pace(p)
  \/ \E p \in Passes : Return(p)

DrainInit == Init /\ online = TRUE

DrainSpec ==
  /\ DrainInit
  /\ [][DrainNext]_vars
  /\ WF_vars(PeriodicTick)
  /\ \A p \in Passes :
       /\ WF_vars(GetItems(p))
       /\ WF_vars(\E ok \in BOOLEAN : AdapterSettles(p, ok, 0))
       /\ WF_vars(RemoveReturn(p))
       /\ WF_vars(UpdateGet(p))
       /\ WF_vars(UpdatePut(p))
       /\ WF_vars(Pace(p))
       /\ WF_vars(Return(p))

BackoffNext == \E n \in 0..MaxRetryCount, rnd \in 0..(RandRes - 1) : Backoff(n, rnd)

BackoffSpec == Init /\ [][BackoffNext]_vars

\* The cache store on its own: producers store results under any key, the
\* clock moves on, the sweep is run with the default and with a longer threshold.
CacheNext ==
  \/ \E key \in CacheKeys, data \in Datas, type \in CacheTypes :
        SetCacheItem(key, data, type)
  \/ \E maxAgeMs \in {DefaultMaxAge, 2 * DefaultMaxAge} : ClearExpiredCache(maxAgeMs)
  \/ Advance(OPENAI_CACHE_DURATION, MaxSweepDays * OPENAI_CACHE_DURATION)

CacheSpec == Init /\ [][CacheNext]_vars

BatchInputs == UNION {[1..n -> Texts] : n \in 1..MaxBatch}

\* The cached proxy: the screens call postOpenAI and batchTranslate, timers
\* fire, fetches settle, days pass.
ProxyNext ==
  \/ \E prompt \in Prompts \cup {""} : PostOpenAI(prompt)
  \/ \E text \in Texts, targetLang \in Langs : PostTranslate(text, targetLang)
  \/ \E id \in CallIds : DebounceFires(id)
  \/ \E id \in CallIds : FetchSettles(id)
  \/ \E textArray \in BatchInputs, targetLang \in Langs : BatchStart(textArray, targetLang)
  \/ BatchCheck
  \/ BatchTranslate
  \/ BatchResume
  \/ BatchDelay
  \/ ProxyAdvance

ProxySpec == Init /\ [][ProxyNext]_vars

\* ------------------------------------------------------------------ claims
NoPassStarts == \A p \in Passes : pc[p] = "idle" => pc'[p] = "idle"

\* C1: at most one pass is in progress at any time, and an invocation of
\* processSyncQueue that finds the guard taken changes nothing: no pass starts,
\* no adapter call is made, no item is modified.
C1_SingleFlight ==
  /\ [](/\ Cardinality({p \in Passes : pc[p] # "idle"}) <= 1
        /\ (\E p \in Passes : Active(pc[p])) => isProcessing
        /\ isProcessing => processSyncQueue(Cur) = Cur)
  /\ [][isProcessing => NoPassStarts]_vars

\* a trigger is pending while a pass waits for its adapter call
C1_Witness ==
  /\ timers > 0
  /\ online
  /\ \E p \in Passes : pc[p] = "adapter"

\* C2: processSyncQueue invoked while navigator.onLine is false starts no pass
\* (no adapter call), leaves every item as it is and does not take the guard.
C2_OfflineSkip ==
  /\ [](~online => processSyncQueue(Cur) = Cur)
  /\ [][~online => NoPassStarts /\ (isProcessing' => isProcessing)]_vars

\* offline, items queued, no pass running, and the timer of an earlier online
\* event still to fire
C2_Witness ==
  /\ ~online
  /\ ~isProcessing
  /\ timers > 0
  /\ queue # <<>>

AllOk(p) ==
  /\ Len(log[p]) = Len(queueItems[p])
  /\ \A k \in 1..Len(log[p]) : log[p][k].out = "ok"

\* C3: a pass whose snapshot holds every item enqueued so far and whose adapter
\* calls all succeed leaves the queue empty and reports successCount = the number
\* of items enqueued (retryQueueItem is not part of the scenario).
C3_Original ==
  \A p \in Passes :
    (pc[p] = "done" /\ retryCalls = 0 /\ Len(queueItems[p]) = Cardinality(usedIds)
       /\ AllOk(p))
    => (queue = <<>> /\ successCount[p] = Cardinality(usedIds))

\* no pass is in the middle of the attempt on item id
Settled(id) == \A p \in Passes : pend[p].id # id /\ pc[p] # "adapter"

\* C4: an item whose adapter calls all fail is in the store after fewer than
\* MAX_RETRIES failed attempts, and after MAX_RETRIES of them it is gone from the
\* store and from the pendingItems and readyToRetry buckets of the status.
C4_Original ==
  \A id \in Ids :
    (fails[id] # Untracked /\ Settled(id))
    => /\ fails[id] < MAX_RETRIES => InQueue(queue, id)
       /\ fails[id] >= MAX_RETRIES =>
            /\ ~InQueue(queue, id)
            /\ id \notin InBucket("pending") \cup InBucket("ready")

\* C5: an item that has left the store never comes back: no step puts a record
\* with the id of a removed item into the store.
C5_Original ==
  [][\A id \in Ids :
       (id \in usedIds /\ ~InQueue(queue, id)) => ~InQueue(queue', id)]_vars

Stays(id) == InQueue(queue, id) /\ InQueue(queue', id)

\* C6 as stated: the stored retries of an item never decreases while it is stored.
C6_Original ==
  [][\A id \in Ids : Stays(id) => items'[id].retries >= items[id].retries]_vars

\* the step is the write of retryQueueItem: Object.assign in the call itself
\* (fallback) or the putRecord of its updateSyncQueueItem settling (IndexedDB)
RetryWrites(id) ==
  \/ ~idb /\ retryCalls' = retryCalls + 1
  \/ idb /\ rq.pc = "put" /\ rq.id = id /\ rq' = NoRq

\* C6 amended: the stored retries of an item never decreases, except that the
\* write of retryQueueItem sets it to 0.
C6_Amended ==
  [][\A id \in Ids : Stays(id) =>
       \/ items'[id].retries >= items[id].retries
       \/ items'[id].retries = 0 /\ RetryWrites(id)]_vars

\* retryQueueItem has reset an item that had failed before
C6_Witness ==
  /\ retryCalls = 1
  /\ rq.pc = "idle"
  /\ \E id \in Ids : /\ InQueue(queue, id)
                     /\ items[id].retries = 0
                     /\ fails[id] = Untracked
                     /\ \E p \in Passes : \E k \in 1..Len(queueItems[p]) :
                          queueItems[p][k].id = id /\ queueItems[p][k].retries > 0

\* BASE_DELAY * 2^n <= gate <= 1.3 * BASE_DELAY * 2^n
InJitterBand(n, gate) ==
  /\ 10 * BASE_DELAY * Pow2(n) <= 10 * gate
  /\ 10 * gate <= 13 * BASE_DELAY * Pow2(n)

\* C7: a nextAttemptAt written with retries = n by a failed attempt lies between
\* BASE_DELAY * 2^n and 1.3 * BASE_DELAY * 2^n ms after the failure, 1 <= n < MAX_RETRIES;
\* this holds of the update a pass has computed and of every stored item.
C7_BackoffBand ==
  /\ \A id \in Ids :
       (InQueue(queue, id) /\ items[id].nextAttemptAt > 0)
       => /\ items[id].retries \in 1..(MAX_RETRIES - 1)
          /\ InJitterBand(items[id].retries, items[id].nextAttemptAt)
  /\ \A p \in Passes :
       (pend[p].kind = "update" /\ pend[p].nextAttemptAt > 0)
       => /\ pend[p].retries \in 1..(MAX_RETRIES - 1)
          /\ InJitterBand(pend[p].retries, pend[p].nextAttemptAt)

\* an item stored after its last non-exhausting failure, its gate not yet reached
C7_Witness ==
  \E id \in Ids : /\ InQueue(queue, id)
                  /\ items[id].retries = MAX_RETRIES - 1
                  /\ items[id].nextAttemptAt > BASE_DELAY * Pow2(MAX_RETRIES - 1)

Rank(c, l, i) ==
  CASE c = "getItems" -> 5 * (MaxItems + 1)
    [] c = "adapter" -> 5 * (l - i) + 4
    [] c = "updGet" -> 5 * (l - i) + 3
    [] c \in {"updPut", "remove"} -> 5 * (l - i) + 2
    [] c = "pace" -> 5 * (l - i) + 1
    [] OTHER -> 0

\* C9: a pass that has taken the guard releases it on every exit path, given that
\* its adapter and storage calls settle: while the pass is under way the call it
\* waits for, or the request queued before it, can settle, each step of the pass
\* brings it closer to its end and no other step takes it further away, and at
\* its end the guard is free.
C9_GuardReleased ==
  /\ [](\A p \in Passes :
          /\ pc[p] = "done" => ~isProcessing
          /\ Active(pc[p]) =>
               /\ isProcessing
               /\ Rank(pc[p], Len(queueItems[p]), idx[p]) > 0
               /\ PassReady(p) \/ RetryReady)
  /\ [][\A p \in Passes :
          Active(pc[p]) =>
            /\ Rank(pc'[p], Len(queueItems'[p]), idx'[p])
                 <= Rank(pc[p], Len(queueItems[p]), idx[p])
            /\ (pc'[p] # pc[p] \/ idx'[p] # idx[p]) =>
                 Rank(pc'[p], Len(queueItems'[p]), idx'[p])
                   < Rank(pc[p], Len(queueItems[p]), idx[p])]_vars

\* a pass has ended after a storage request of it failed, the guard is free
C9_Witness ==
  /\ ~isProcessing
  /\ faults > 0
  /\ \E p \in Passes : pc[p] = "done" /\ failCount[p] > 0

\* C10: a pass ends only after it has reached every item of its snapshot: each
\* one was skipped because its gate was still ahead, or attempted exactly once,
\* whatever became of the items before it.
C10_EveryDueItemAttempted ==
  \A p \in Passes :
    /\ Len(log[p]) <= Len(queueItems[p])
    /\ pc[p] = "done" =>
         /\ Len(log[p]) = Len(queueItems[p])
         /\ \A k \in 1..Len(log[p]) :
              /\ log[p][k].out \in {"skip", "ok", "fail", "exhausted"}
              /\ log[p][k].out = "skip" <=> log[p][k].gate > 0
         /\ successCount[p] + failCount[p] =
              Cardinality({k \in 1..Len(log[p]) : log[p][k].out # "skip"})

\* a pass has ended in which the first item failed and the second was attempted
C10_Witness ==
  \E p \in Passes :
    /\ pc[p] = "done"
    /\ Len(log[p]) = 2
    /\ log[p][1].out = "fail"
    /\ log[p][2].out = "ok"

\* how the promise of an invocation at pc c has settled: getQueueItems turns a
\* failed read into [] (lines 187-190) and the catch of processSyncQueue
\* rethrows nothing (lines 383-385), so no invocation ever rejects
PassSettles(c) == IF c = "done" THEN "fulfilled" ELSE "pending"

\* C11: when the read of the queue items fails during a pass, the pass ends as a
\* failure to its caller (its promise rejects), not as a normal completion on an
\* empty queue.
C11_Original ==
  [][\A p \in Passes :
       (pc[p] = "getItems" /\ pc'[p] # "getItems" /\ faults' > faults)
       => PassSettles(pc'[p]) = "rejected"]_vars

\* the call that led from m to m2 started a pass
PassStarted(m, m2) == \E p \in Passes : m.pc[p] = "idle" /\ m2.pc[p] # "idle"

\* C12: forceSyncQueue returns true if and only if its call started a pass, and
\* false exactly when a pass was already in progress.
C12_Original ==
  CanInvoke =>
    LET r == forceSyncQueueCall(Cur)
    IN  /\ r.ret <=> PassStarted(Cur, r.m)
        /\ ~r.ret <=> isProcessing

\* C13: items enqueued offline stay in the queue through a drain invoked offline;
\* going online arms the trigger, the trigger firing online with no pass under
\* way starts a pass, and once the page is online, with the adapter succeeding,
\* the status eventually reports totalItems = 0 with no manual action.
C13_OnlineDrain ==
  /\ [](~online => Len(queue) = Cardinality(usedIds))
  /\ [][(~online /\ online') => timers' > 0]_vars
  /\ [][(timers' < timers /\ online /\ ~isProcessing) => PassStarted(Cur, Cur')]_vars
  /\ online ~> (getSyncQueueStatus.totalItems = 0)

\* items enqueued offline have all been submitted by the pass of the online trigger
C13_Witness ==
  /\ online
  /\ usedIds # {}
  /\ queue = <<>>
  /\ timers = 0
  /\ \E p \in Passes : pc[p] = "done" /\ successCount[p] = Cardinality(usedIds)

\* C14: once the adapter call of the only item enqueued has failed MAX_RETRIES
\* times in a row, the status reports totalItems = 0 and failedItems = 1 (the
\* status exposes no other counter of removed items).
C14_Original ==
  \A id \in Ids :
    (usedIds = {id} /\ fails[id] >= MAX_RETRIES /\ Settled(id))
    => /\ getSyncQueueStatus.totalItems = 0
       /\ getSyncQueueStatus.failedItems = 1

\* C19: every status snapshot, whatever the outcome of its read, partitions the
\* items in the store: pendingItems counts those with the gate ahead,
\* readyToRetry those with no gate or the gate reached, failedItems those with
\* retries >= MAX_RETRIES, each item in exactly one, and totalItems is their sum.
C19_Original ==
  \A ok \in StorageOutcomes :
    LET st == getSyncQueueStatusCall(Cur, ok)
        stored == {id \in Ids : InQueue(queue, id)}
        pending == {id \in stored : items[id].nextAttemptAt > 0}
        ready == {id \in stored : items[id].nextAttemptAt \in {NoGate, 0}}
        failed == {id \in stored : items[id].retries >= MAX_RETRIES}
    IN  /\ st.pendingItems = Cardinality(pending)
        /\ st.readyToRetry = Cardinality(ready)
        /\ st.failedItems = Cardinality(failed)
        /\ pending \cup ready \cup failed = stored
        /\ pending \cap failed = {} /\ ready \cap failed = {}
        /\ st.totalItems = Len(queue)
        /\ st.totalItems = st.pendingItems + st.readyToRetry + st.failedItems

SameIdentity(a, b) ==
  a.id = b.id /\ a.type = b.type /\ a.payload = b.payload /\ a.createdAt = b.createdAt

\* retries 0, no gate, no error: eligible at once
IsReset(rec) ==
  /\ rec.retries = 0
  /\ rec.nextAttemptAt = NoGate
  /\ rec.lastError = "none"
  /\ Bucket(rec) = "ready"

OthersKept(m2, id) ==
  \A j \in Ids \ {id} :
    /\ m2.items[j] = items[j]
    /\ InQueue(m2.queue, j) <=> InQueue(queue, j)

\* the update u of retryQueueItem has reset item id, which was old, and kept the
\* rest; retryQueueItem returns true
RetryEffect(u, id, old) ==
  /\ retryQueueItemEnd(u).ret
  /\ InQueue(u.m.queue, id)
  /\ IsReset(u.m.items[id])
  /\ SameIdentity(u.m.items[id], old)
  /\ OthersKept(u.m, id)

\* the update u of retryQueueItem has left the store as it was; retryQueueItem
\* returns false and triggers no drain
RetryNoEffect(u) ==
  /\ ~retryQueueItemEnd(u).ret
  /\ u.m.items = items /\ u.m.queue = queue
  /\ retryQueueItemEnd(u).m.pc = pc

\* the record retryQueueItem holds between its read and its write is the reset
\* of the item it read
RetryRead(g, id) ==
  /\ g.rq.pc = "put"
  /\ IsReset(g.rq.item)
  /\ SameIdentity(g.rq.item, items[id])
  /\ g.m.items = items /\ g.m.queue = queue

\* C15 as stated: retryQueueItem on an item present in the store resets it
\* (retries 0, no gate, no error), keeps its id, type, payload and createdAt and
\* every other item, and returns true, whatever its storage requests do.
C15_Original ==
  /\ \A id \in Ids :
       (~idb /\ rq.pc = "idle" /\ CanInvoke /\ InQueue(queue, id))
       => RetryEffect(retryUpdate(Cur, id), id, items[id])
  /\ (rq.pc = "get" /\ InQueue(queue, rq.id))
       => \A ok \in StorageOutcomes : RetryRead(retryGet(Cur, rq, ok), rq.id)
  /\ rq.pc = "put"
       => \A ok \in StorageOutcomes :
            RetryEffect(retryPut(Cur, rq, ok), rq.id,
                        IF InQueue(queue, rq.id) THEN items[rq.id] ELSE rq.item)

\* C15 amended: retryQueueItem on an item that is in the store when the update
\* reads it resets it, keeps its id, type, payload and createdAt and every other
\* item, and returns true, provided the storage requests of the update succeed;
\* when one of them fails the store is left as it was and false is returned.
C15_Amended ==
  /\ \A id \in Ids :
       (~idb /\ rq.pc = "idle" /\ CanInvoke /\ InQueue(queue, id))
       => RetryEffect(retryUpdate(Cur, id), id, items[id])
  /\ (rq.pc = "get" /\ InQueue(queue, rq.id))
       => \A ok \in StorageOutcomes :
            IF ok THEN RetryRead(retryGet(Cur, rq, ok), rq.id)
            ELSE /\ retryGet(Cur, rq, ok).rq = NoRq
                 /\ RetryNoEffect(retryGet(Cur, rq, ok))
  /\ rq.pc = "put"
       => \A ok \in StorageOutcomes :
            IF ok THEN RetryEffect(retryPut(Cur, rq, ok), rq.id,
                                   IF InQueue(queue, rq.id) THEN items[rq.id] ELSE rq.item)
            ELSE RetryNoEffect(retryPut(Cur, rq, ok))

\* the update of retryQueueItem is about to write an item that has failed and
\* waits behind its gate
C15_Witness ==
  /\ rq.pc = "put"
  /\ InQueue(queue, rq.id)
  /\ items[rq.id].retries > 0
  /\ items[rq.id].nextAttemptAt > 0

\* C16: every pass that took the guard and has ended has dispatched its
\* syncQueueProcessed notification, a pass that found the queue empty included.
C16_Original ==
  \A p \in Passes : pc[p] = "done" => emitted[p]

\* C17: enqueue, when its write succeeds, adds exactly one item with retries 0
\* and no gate that carries the type and payload given, returns that item, and
\* leaves the items already stored and their order as they were; an item not yet
\* attempted has no gate, and a pass never skips an item without a gate.
C17_EnqueueAdds ==
  /\ \A id \in Ids \ usedIds, type \in Types, payload \in Payloads :
       Quiet =>
         LET r == enqueueCall(Cur, id, type, payload, TRUE)
         IN  /\ ~r.threw
             /\ r.ret.id = id /\ r.ret.type = type /\ r.ret.payload = payload
             /\ r.ret.retries = 0 /\ r.ret.nextAttemptAt = NoGate
             /\ Bucket(r.ret) = "ready"
             /\ ~InQueue(queue, id) /\ InQueue(r.m.queue, id)
             /\ r.m.items[id] = r.ret
             /\ Len(r.m.queue) = Len(queue) + 1
             /\ RemoveId(r.m.queue, id) = queue
             /\ OthersKept(r.m, id)
  /\ \A id \in Ids :
       (InQueue(queue, id) /\ fails[id] = 0)
       => items[id].retries = 0 /\ items[id].nextAttemptAt = NoGate
  /\ \A p \in Passes : \A k \in 1..Len(log[p]) :
       log[p][k].gate = NoGate => log[p][k].out # "skip"

\* a second item has been enqueued beside one that has failed, and a pass has
\* reached it
C17_Witness ==
  \E a, b \in Ids :
    /\ InQueue(queue, a) /\ items[a].retries > 0
    /\ items[b].id = b /\ items[b].createdAt = 2 /\ items[b].retries = 0
    /\ \E p \in Passes : \E k \in 1..Len(log[p]) :
         queueItems[p][k].id = b /\ log[p][k].out = "calling"

\* C18: when the write of the item fails, enqueue throws to its caller, the
\* store holds no new item and nothing else changes, and the write was tried
\* once; this holds of the operation in every state and of every step in which
\* a request fails outside a pass and outside retryQueueItem.
C18_EnqueueFails ==
  /\ [](\A id \in Ids \ usedIds, type \in Types, payload \in Payloads :
          (idb /\ Quiet) =>
            LET r == enqueueCall(Cur, id, type, payload, FALSE)
            IN  /\ r.threw
                /\ r.m.items = items /\ r.m.queue = queue
                /\ r.m.faults = faults + 1
                /\ r.m.pc = pc)
  /\ [][(faults' > faults /\ pc' = pc /\ rq' = rq)
          => /\ items' = items /\ queue' = queue /\ usedIds' = usedIds
             /\ faults' = faults + 1]_vars

\* a write has failed on a page that was never online, beside an item stored
C18_Witness ==
  /\ idb
  /\ faults = 1
  /\ ~online /\ timers = 0
  /\ Len(queue) = 1 /\ Cardinality(usedIds) = 1
  /\ \A id \in Ids : InQueue(queue, id) => fails[id] = 0

C21_RoundTrip ==
  \A key \in CacheKeys, data \in Datas, type \in CacheTypes, ok \in CacheOutcomes :
    LET s == setCacheItemCall(cache, now, key, data, type, ok)
        got == getCacheItem(s.cache, key)
    IN  ~s.threw =>
          /\ got # NoEntry
          /\ got.key = key
          /\ got.data = data
          /\ got.type = type
          /\ now - getTime(got.createdAt) = 0
          /\ got = s.ret
          /\ \A other \in CacheKeys \ {key} : getCacheItem(s.cache, other) = cache[other]

\* a store has replaced an older entry while another key holds an entry
C21_Witness ==
  \E key \in CacheKeys, other \in CacheKeys :
    /\ other # key
    /\ cache[key] # NoEntry
    /\ cache[other] # NoEntry
    /\ now > 0
    /\ getTime(cache[key].createdAt) = now
    /\ getTime(cache[other].createdAt) < now
    /\ cache[key].data # cache[other].data

Age(key) == now - getTime(cache[key].createdAt)
Fresh(key, duration) == cache[key] # NoEntry /\ Age(key) < duration
Stale(key, duration) == cache[key] # NoEntry /\ Age(key) >= duration
Without(key) == [PCur EXCEPT !.cache[key] = NoEntry]
SameButCache(m1, m2) ==
  /\ m1.calls = m2.calls
  /\ m1.debounceMap = m2.debounceMap
  /\ m1.requestHistory = m2.requestHistory

\* what C22 says of one reader: r the call on the current state, absent the
\* same call on a store without the entry
ServedOnlyFresh(r, absent, key, duration, id, ok) ==
  /\ r.hit <=> (ok /\ Fresh(key, duration))
  /\ r.hit => r.ret = cache[key].data /\ r.m = PCur
  /\ r.m.cache = cache
  /\ ~r.hit => r.m.calls[id].st = "timer"
  /\ Stale(key, duration) =>
       /\ ~r.hit
       /\ r.ret = absent.ret
       /\ SameButCache(r.m, absent.m)

OneText(text, targetLang) ==
  [NoBatch EXCEPT !.pc = "check", !.textArray = <<text>>, !.targetLang = targetLang, !.i = 1]

\* C22: postOpenAI, postTranslate and batchTranslate return cached data, with
\* no timer armed and so no remote call, exactly when the entry read is younger
\* than the duration of its type (24 h, 7 d); an entry of age >= the duration
\* is handled as a missing one (the request goes on to the remote call) and is
\* left in the store by the read.
C22_ServedOnlyFresh ==
  \A id \in CallIds, ok \in CacheOutcomes :
    /\ \A prompt \in Prompts :
         LET key == generateOpenAICacheKey(prompt, "1", "gpt-3.5-turbo")
         IN  ServedOnlyFresh(postOpenAICall(PCur, id, prompt, ok),
                             postOpenAICall(Without(key), id, prompt, ok),
                             key, OPENAI_CACHE_DURATION, id, ok)
    /\ \A text \in Texts, targetLang \in Langs :
         LET key == generateTranslateCacheKey(trim(text), trim(toLowerCase(targetLang)))
         IN  ServedOnlyFresh(postTranslateCall(PCur, id, text, targetLang, ok),
                             postTranslateCall(Without(key), id, text, targetLang, ok),
                             key, TRANSLATE_CACHE_DURATION, id, ok)
    /\ \A text \in Texts, targetLang \in Langs :
         LET key == generateTranslateCacheKey(text, targetLang)
             b == batchChecked(OneText(text, targetLang), PCur, ok)
             absent == batchChecked(OneText(text, targetLang), Without(key), ok)
         IN  /\ b.results[text] # Unset <=> (ok /\ Fresh(key, TRANSLATE_CACHE_DURATION))
             /\ b.results[text] # Unset => b.results[text] = cache[key].data
             /\ b.results[text] = Unset <=> b.uncachedTexts = <<text>>
             /\ Stale(key, TRANSLATE_CACHE_DURATION) => b = absent

\* a translation request is waiting for its remote call while the entry of
\* its key, exactly seven days old, is still in the store
C22_Witness ==
  \E id \in CallIds :
    /\ calls[id].st = "fetch"
    /\ calls[id].kind = "translate"
    /\ cache[calls[id].key] # NoEntry
    /\ Age(calls[id].key) = TRANSLATE_CACHE_DURATION

Stored == {k \in CacheKeys : cache[k] # NoEntry}
SweepAges == {DefaultMaxAge, 2 * DefaultMaxAge}

\* C23: clearExpiredCache(maxAgeMs) ends by returning, after one pass of the
\* cursor that has visited every entry of the store exactly once, whatever
\* the store holds.
C23_Original ==
  idb => \A maxAgeMs \in SweepAges :
           LET r == clearExpiredCacheCall(cache, now, maxAgeMs, TRUE)
           IN  /\ ~r.threw
               /\ \A k \in CacheKeys : r.visits[k] = IF k \in Stored THEN 1 ELSE 0

\* C24: clearExpiredCache(maxAgeMs) removes every entry older than maxAgeMs, of
\* any type, keeps every entry that is not, and returns the number of entries
\* it removed.
C24_Original ==
  idb => \A maxAgeMs \in SweepAges :
           LET r == clearExpiredCacheCall(cache, now, maxAgeMs, TRUE)
               expired == {k \in Stored : Age(k) > maxAgeMs}
           IN  /\ \A k \in expired : r.cache[k] = NoEntry
               /\ \A k \in CacheKeys \ expired : r.cache[k] = cache[k]
               /\ ~r.threw
               /\ r.ret = Cardinality(expired)

\* positions of the snapshot of pass p whose item the pass has yet to decide on
\* (skip or attempt) or is attempting
Unhandled(p) ==
  IF ~Active(pc[p]) \/ pc[p] = "getItems" THEN {}
  ELSE IF pc[p] = "adapter" THEN idx[p]..Len(queueItems[p])
  ELSE (idx[p] + 1)..Len(queueItems[p])

Due(rec) == ~(rec.nextAttemptAt # NoGate /\ 0 < rec.nextAttemptAt)

\* C25: the IndexedDB-backed queue does what the in-memory queue does under the
\* same calls and adapter outcomes.  The in-memory queue hands a pass the live
\* item objects, so a pass decides to skip or attempt an item on the gate the
\* item has when the pass reaches it and a failed attempt stores that item's
\* current retries plus one; the same calls, adapter calls and item states on
\* IndexedDB require the pass to see the same gate and the same retries there.
C25_Original ==
  \A p \in Passes : \A k \in Unhandled(p) :
    LET id == queueItems[p][k].id
    IN  InQueue(queue, id) =>
          /\ SnapItem(Cur, p, k).retries = items[id].retries
          /\ Due(SnapItem(Cur, p, k)) <=> Due(items[id])

\* the step of pass p in which the outcome of a failed attempt has been dealt
\* with and counted (lines 276-306, then 354)
FailureCounted(p) == failCount'[p] = failCount[p] + 1

Charged(p) ==
  LET id == queueItems[p][idx[p]].id
  IN  IF InQueue(queue', id)
      THEN InQueue(queue, id) /\ items'[id].retries = items[id].retries + 1
      ELSE items[id].retries + 1 >= MAX_RETRIES

\* C26: every failed adapter attempt is charged to the item: once the failure
\* has been dealt with, the item's stored retries is one more than it was, or
\* the item has been removed because that count reached MAX_RETRIES; for every
\* interleaving and storage outcome.
C26_Original == [][\A p \in Passes : FailureCounted(p) => Charged(p)]_vars

Decided == {"skip", "ok", "fail", "exhausted"}

\* while the adapter call of position idx[p] is pending, the pass has decided
\* the earlier positions of its snapshot in order, has no other adapter call
\* and waits for no storage request
OneAtATime(p) ==
  pc[p] = "adapter" =>
    /\ pend[p] = NoPend
    /\ Len(log[p]) = idx[p]
    /\ log[p][idx[p]].out = "calling"
    /\ \A j \in 1..(idx[p] - 1) : log[p][j].out \in Decided

\* the step in which the pass counts the outcome of an attempt leaves that
\* outcome in the store: the item removed, or its retry metadata written
Persisted(p) ==
  LET id == queueItems'[p][idx'[p]].id
  IN  /\ successCount'[p] = successCount[p] + 1 => ~InQueue(queue', id)
      /\ failCount'[p] = failCount[p] + 1 =>
           \/ ~InQueue(queue', id)
           \/ items'[id] # items[id] /\ items'[id].lastError = "err"

\* C27: a pass attempts its items one at a time in snapshot order; an adapter
\* call starts only after the outcome of the previous attempt is in the store
\* (item removed, or retry metadata written), and two adapter calls of a pass
\* never overlap.
C27_Original ==
  /\ [](\A p \in Passes : OneAtATime(p))
  /\ [][\A p \in Passes : Persisted(p)]_vars

InFuture(gate) == gate # NoGate /\ 0 < gate

\* snapshot positions pass p reaches in this step
NewlyReached(p) ==
  IF Len(log'[p]) > Len(log[p]) THEN (Len(log[p]) + 1)..Len(log'[p]) ELSE {}

Attempts(p) == {j \in 1..Len(log[p]) : log[p][j].out \in {"ok", "fail", "exhausted"}}

\* a position reached while the gate of its item is in the future is skipped,
\* and the step leaves the item as it is
SkippedWhenReached(p) ==
  \A j \in NewlyReached(p) :
    LET id == queueItems'[p][j].id
    IN  InFuture(log'[p][j].gate) =>
          /\ log'[p][j].out = "skip"
          /\ ~(pc'[p] = "adapter" /\ idx'[p] = j)
          /\ InQueue(queue, id) = InQueue(queue', id)
          /\ items'[id] = items[id]

\* a skipped position stays skipped for the rest of the pass
SkipIsFinal(p) ==
  \A j \in 1..Len(log[p]) :
    (log[p][j].out = "skip" /\ j <= Len(log'[p])) => log'[p][j].out = "skip"

\* C28: an item whose nextAttemptAt is in the future when the pass reaches it
\* is skipped: no adapter call is made for it, it stays in the store with
\* retries, nextAttemptAt and lastError as they are, and it is counted neither
\* in successCount nor in failCount.
C28_FutureItemSkipped ==
  /\ [](\A p \in Passes :
          /\ \A j \in 1..Len(log[p]) : log[p][j].out = "skip" <=> InFuture(log[p][j].gate)
          /\ successCount[p] + failCount[p] = Cardinality(Attempts(p))
          /\ pc[p] = "adapter" => log[p][idx[p]].out = "calling")
  /\ [][\A p \in Passes : SkippedWhenReached(p) /\ SkipIsFinal(p)]_vars

\* a pass has finished that skipped an item waiting for its gate and attempted
\* another one; the skipped item is still stored and waiting
C28_Witness ==
  \E p \in Passes : \E j \in 1..Len(log[p]) :
    /\ pc[p] = "done"
    /\ log[p][j].out = "skip"
    /\ Attempts(p) # {}
    /\ InQueue(queue, queueItems[p][j].id)
    /\ InFuture(items[queueItems[p][j].id].nextAttemptAt)
    /\ items[queueItems[p][j].id].retries >= 1

SnapIds(p) == {queueItems[p][k].id : k \in 1..Len(queueItems[p])}
SnapOrder(q) == [k \in 1..Len(q) |-> q[k].id]
HasSnapshot(p) == Active(pc[p]) /\ pc[p] # "getItems"

\* item id is stored and has never been attempted, while a pass is in
\* progress on a snapshot that does not hold it
NewDuringPass(id) ==
  /\ InQueue(queue, id)
  /\ fails[id] = 0
  /\ \A p \in Passes : \A j \in 1..Len(log[p]) : queueItems[p][j].id # id
  /\ \E p \in Passes : HasSnapshot(p) /\ id \notin SnapIds(p)

\* a pass has reached item id and not skipped it
Handled(id) ==
  \E p \in Passes : \E j \in 1..Len(log[p]) :
    queueItems[p][j].id = id /\ log[p][j].out # "skip"

\* once read, the snapshot of a pass keeps its items and their order
SnapshotFixed(p) ==
  (HasSnapshot(p) /\ pc'[p] # "idle") =>
     SnapOrder(queueItems'[p]) = SnapOrder(queueItems[p])

\* an item enqueued in this step is in no snapshot of a pass in progress
EnqueuedOutside ==
  \A id \in usedIds' \ usedIds : \A p \in Passes :
    Active(pc[p]) => id \notin {queueItems'[p][k].id : k \in 1..Len(queueItems'[p])}

\* an item leaves the store only as the item a pass has attempted
RemovedByItsPass ==
  \A id \in Ids :
    (InQueue(queue, id) /\ ~InQueue(queue', id)) =>
       \E p \in Passes : \E j \in 1..Len(log'[p]) :
          queueItems'[p][j].id = id /\ log'[p][j].out \in {"ok", "exhausted"}

\* C29: a pass works on the snapshot read at its start and runs to completion
\* over it; an item enqueued while the pass is in progress is not attempted in
\* that pass, is not lost, and is attempted by a later pass.
C29_SnapshotPass ==
  /\ [](\A p \in Passes :
          /\ pc[p] = "adapter" => idx[p] \in 1..Len(queueItems[p])
          /\ Len(log[p]) <= Len(queueItems[p])
          /\ pc[p] = "done" =>
               /\ Len(log[p]) = Len(queueItems[p])
               /\ \A j \in 1..Len(log[p]) : log[p][j].out \in Decided)
  /\ [][(\A p \in Passes : SnapshotFixed(p)) /\ EnqueuedOutside /\ RemovedByItsPass]_vars
  /\ \A id \in Ids : NewDuringPass(id) ~> Handled(id)

\* an adapter call of a pass is pending while a second item, enqueued after
\* the pass read its snapshot and never attempted, is in the store
C29_Witness ==
  \E id \in Ids : \E p \in Passes :
    /\ NewDuringPass(id)
    /\ pc[p] = "adapter"
    /\ Len(queueItems[p]) = 1
    /\ id \notin SnapIds(p)

\* snapshot positions of pass p counted with result out
Counted(p, out) == {j \in 1..Len(log[p]) : log[p][j].out = out}

\* the item of snapshot position j of pass p is no longer stored
Gone(p, j) == ~InQueue(queue, queueItems[p][j].id)

\* the summary event of pass p has been dispatched (lines 371-382)
Summarised(p) == pc[p] = "done" /\ emitted[p]

\* C30: in the summary of a pass, totalProcessed = successCount + failCount is
\* the number of items attempted in the pass; successCount is the number of
\* items removed after a successful call, failCount the number of items whose
\* attempt failed, the exhausted ones removed and the others kept for a retry.
C30_Original ==
  \A p \in Passes : Summarised(p) =>
    /\ successCount[p] + failCount[p] = Cardinality(Attempts(p))
    /\ successCount[p] = Cardinality({j \in Counted(p, "ok") : Gone(p, j)})
    /\ failCount[p] = Cardinality({j \in Counted(p, "exhausted") : Gone(p, j)})
                      + Cardinality({j \in Counted(p, "fail") : ~Gone(p, j)})

\* the retry count a pass is about to write is below MAX_RETRIES, and the
\* removal of an exhausted item is for an item read one failure short of it
ExhaustedRemoved(p) ==
  /\ pc[p] \in {"updGet", "updPut"} => pend[p].retries < MAX_RETRIES
  /\ (pc[p] = "remove" /\ pend[p].kind = "exhausted") =>
       SnapItem(Cur, p, idx[p]).retries + 1 >= MAX_RETRIES

\* C31: every stored item has 0 <= retries < MAX_RETRIES, the failure that
\* would bring retries to MAX_RETRIES removing the item instead; so every
\* status snapshot has failedItems = 0, and clearFailedQueueItems returns 0
\* and removes nothing, whatever the storage requests do.
C31_RetriesBelowMax ==
  /\ \A id \in Ids : InQueue(queue, id) =>
       items[id].retries >= 0 /\ items[id].retries < MAX_RETRIES
  /\ \A p \in Passes : ExhaustedRemoved(p)
  /\ \A ok \in StorageOutcomes : getSyncQueueStatusCall(Cur, ok).failedItems = 0
  /\ \A okRead \in StorageOutcomes, okDel \in StorageOutcomes :
       Quiet =>
         /\ clearFailedQueueItemsCall(Cur, okRead, okDel).ret = 0
         /\ clearFailedQueueItemsCall(Cur, okRead, okDel).m.queue = queue

\* a pass has ended that removed an item on its MAX_RETRIES-th failure
C31_Witness ==
  \E p \in Passes : \E j \in 1..Len(log[p]) :
    /\ pc[p] = "done"
    /\ log[p][j].out = "exhausted"
    /\ fails[queueItems[p][j].id] >= MAX_RETRIES
    /\ ~InQueue(queue, queueItems[p][j].id)

\* the fields of a stored item that identify the operation
Identity(rec) ==
  [id |-> rec.id, type |-> rec.type, payload |-> rec.payload, createdAt |-> rec.createdAt]

\* C32: the id, type, payload and createdAt of an item do not change while it
\* is stored: every step of a pass, of retryQueueItem and of the other calls
\* leaves them as enqueue wrote them, and the record stored under an id
\* carries that id.
C32_IdentityKept ==
  /\ [](\A id \in Ids : InQueue(queue, id) =>
          /\ items[id].id = id
          /\ items[id].type \in Types
          /\ items[id].payload \in Payloads
          /\ items[id].createdAt >= 1)
  /\ [][\A id \in Ids : Stays(id) => Identity(items'[id]) = Identity(items[id])]_vars

\* an item reset by retryQueueItem has failed again in a pass: both writers
\* have written its record
C32_Witness ==
  /\ retryCalls = 1
  /\ rq.pc = "idle"
  /\ \E id \in Ids :
       /\ InQueue(queue, id)
       /\ fails[id] = Untracked
       /\ items[id].retries = 1
       /\ items[id].lastError = "err"
       /\ \E p \in Passes : \E j \in 1..Len(log[p]) :
            queueItems[p][j].id = id /\ log[p][j].out = "fail"

\* C33: a pass waits the pacing delay only between two attempts: while it
\* waits, it has attempted more than one item or has snapshot positions left;
\* a pass whose only attempt is behind it and whose other items were skipped
\* does not wait.
C33_Original ==
  \A p \in Passes :
    pc[p] = "pace" => Cardinality(Attempts(p)) >= 2 \/ idx[p] < Len(queueItems[p])

\* the adapter call of pass p is pending before and after the step
Hung(p) == pc[p] = "adapter" /\ pc'[p] = "adapter"

\* nothing is attempted in the step: no snapshot position is reached or
\* decided and no counter moves
NothingAttempted ==
  /\ log' = log
  /\ idx' = idx
  /\ successCount' = successCount
  /\ failCount' = failCount

\* C34: as long as an adapter call has not returned, the pass that issued it
\* holds the guard: every processSyncQueue invocation is skipped (the one of
\* retryQueueItem included), forceSyncQueue returns false and starts nothing,
\* no trigger starts a pass, and no item is attempted.
C34_HangHoldsGuard ==
  /\ [](\A p \in Passes : pc[p] = "adapter" =>
          /\ isProcessing
          /\ processSyncQueue(Cur) = Cur
          /\ forceSyncQueueCall(Cur) = [m |-> Cur, ret |-> FALSE]
          /\ retryQueueItemCont(Cur) = Cur
          /\ \A q \in Passes \ {p} : pc[q] = "idle")
  /\ [][\A p \in Passes : Hung(p) =>
          /\ isProcessing'
          /\ NoPassStarts
          /\ NothingAttempted]_vars

\* an adapter call is pending while the page is online, the periodic timer
\* can fire and an item that is not in the snapshot of the pass waits
C34_Witness ==
  \E p \in Passes : \E id \in Ids :
    /\ pc[p] = "adapter"
    /\ online
    /\ InQueue(queue, id)
    /\ \A k \in 1..Len(queueItems[p]) : queueItems[p][k].id # id

\* postTranslate(text, targetLang) is served from the cache
PostHits(text, targetLang) ==
  \A id \in CallIds : postTranslateCall(PCur, id, text, targetLang, TRUE).hit

\* the first loop of batchTranslate([text], targetLang) is served from the cache
BatchHits(text, targetLang) ==
  batchChecked(OneText(text, targetLang), PCur, TRUE).results[text] # Unset

\* C35: for every text and target language postTranslate and the cache check
\* of batchTranslate use the same cache entry: whenever one of them is served
\* from the cache, so is the other.
C35_Original ==
  \A text \in Texts, targetLang \in Langs :
    PostHits(text, targetLang) <=> BatchHits(text, targetLang)

\* the adapter call of pass p returns in this step
AdapterReturned(p) == pc[p] = "adapter" /\ (pc'[p] # "adapter" \/ idx'[p] # idx[p])

\* the outcome of the attempt at position k is being written or has been counted
Handling(p, k) ==
  \/ /\ pc'[p] \in {"remove", "updGet"}
     /\ idx'[p] = k
     /\ pend'[p].id = queueItems[p][k].id
     /\ pend'[p].kind \in {"ok", "exhausted", "update"}
  \/ log'[p][k].out \in {"ok", "fail", "exhausted"}

\* the write a pass waits for after a failed attempt carries the retry count
\* of the item it read plus one and a gate ahead of the failure
FailureWritten(p) ==
  pc[p] \in {"updGet", "updPut"} =>
    /\ pend[p].kind = "update"
    /\ pend[p].retries = queueItems[p][idx[p]].retries + 1
    /\ pend[p].nextAttemptAt # NoGate

\* a pass that read items ends normally: every position decided, the failed
\* attempts counted in failCount, the summary dispatched, the guard released
EndsNormally(p) ==
  (pc[p] = "done" /\ Len(queueItems[p]) > 0) =>
    /\ emitted[p]
    /\ ~isProcessing
    /\ Len(log[p]) = Len(queueItems[p])
    /\ \A j \in 1..Len(log[p]) : log[p][j].out \in Decided
    /\ failCount[p] = Cardinality(Counted(p, "fail") \cup Counted(p, "exhausted"))

\* C36: an adapter failure, the one that exhausts the retries included, does
\* not end the pass: the pass goes on to write the retry metadata or to remove
\* the item, counts the attempt in failCount and completes with its summary
\* and the guard released, as a pass without failures does.
C36_NoRaise ==
  /\ [](\A p \in Passes : FailureWritten(p) /\ EndsNormally(p))
  /\ [][\A p \in Passes : AdapterReturned(p) => Handling(p, idx[p])]_vars

\* a pass has completed in which one attempt failed and was rescheduled and
\* another exhausted its retries
C36_Witness ==
  \E p \in Passes :
    /\ pc[p] = "done"
    /\ emitted[p]
    /\ Counted(p, "fail") # {}
    /\ Counted(p, "exhausted") # {}

\* retryQueueItem(id) has returned true and no failure has been charged to
\* the item since: the call is over, no storage request has failed, the item
\* is stored with retries 0
ResetDone(id) ==
  /\ retryCalls >= 1
  /\ rq.pc = "idle"
  /\ faults = 0
  /\ fails[id] = Untracked
  /\ InQueue(queue, id)
  /\ items[id].retries = 0

\* pass p starts an adapter call in this step
AttemptStarts(p) == pc'[p] = "adapter" /\ (pc[p] # "adapter" \/ idx'[p] # idx[p])

\* the retry count of the item object pass p makes its attempt with
AttemptRetries(p) ==
  IF idb THEN queueItems'[p][idx'[p]].retries
  ELSE items'[queueItems'[p][idx'[p]].id].retries

\* C37: once retryQueueItem(id) has returned true, the next adapter attempt on
\* the item is made with retries 0, so that its failure stores retries = 1;
\* also by a pass that read its snapshot before the reset.
C37_Original ==
  [][\A p \in Passes :
       (AttemptStarts(p) /\ ResetDone(queueItems'[p][idx'[p]].id))
         => AttemptRetries(p) = 0]_vars

\* C38: when a pass ends, every item it counted as a success is absent from
\* the store, whatever the outcome of its storage requests, so that no later
\* pass finds the item and submits its payload again.
C38_Original ==
  \A p \in Passes : pc[p] = "done" => \A j \in Counted(p, "ok") : Gone(p, j)

\* the type of the item at snapshot position j as pass p reads it on reaching
\* the position: the copy in the snapshot (IndexedDB) or the item object
TypeReached(p, j) ==
  IF idb THEN queueItems'[p][j].type ELSE items[queueItems'[p][j].id].type

\* pass p, reaching an item of an unsupported type, removes it as a success
\* without an adapter call
RemovedUncalled(p) ==
  \A j \in NewlyReached(p) :
    LET id == queueItems'[p][j].id
    IN  (InQueue(queue, id) /\ TypeReached(p, j) \notin KnownTypes) =>
          /\ ~(pc'[p] = "adapter" /\ idx'[p] = j)
          /\ IF idb
             THEN pc'[p] = "remove" /\ idx'[p] = j /\ pend'[p].id = id /\ pend'[p].kind = "ok"
             ELSE log'[p][j].out = "ok" /\ ~InQueue(queue', id)
                  /\ successCount'[p] = successCount[p] + 1

\* C39: an item whose type is neither finalSubmit nor feedback is handled by
\* the first pass that reaches it: no adapter call is made for it, it is
\* counted as a success, and it is gone from the queue when the pass ends.
C39_Original ==
  /\ [][\A p \in Passes : RemovedUncalled(p)]_vars
  /\ [](\A p \in Passes : (idb /\ pc[p] = "done") =>
          \A j \in 1..Len(queueItems[p]) :
            queueItems[p][j].type \notin KnownTypes => log[p][j].out = "ok" /\ Gone(p, j))

\* the promise of call id is pending
Pending(id) == calls[id] # NoCall /\ calls[id].st \notin {"resolved", "rejected"}

\* C40: every call of postOpenAI or postTranslate that missed the cache
\* settles: as long as its promise is pending, its debounce timer is armed or
\* its request is in flight, also after a later call under the same debounce
\* key has replaced the timer.
C40_Original ==
  \A id \in CallIds : Pending(id) => calls[id].st \in {"timer", "fetch"}

====
